---- MODULE Spec2Model ----
(***************************************************************************)
(* Elden Bingo: the client-side derivation engine.                         *)
(*   - duration parser        parseTimeToMinutes, formatMinutesToTime      *)
(*   - stats aggregator       useStats / calculateStats                    *)
(*   - player profile         usePlayerProfile / calculateStats,           *)
(*                            calculateAchievements, calculateHeadToHead   *)
(*                                                                         *)
(* Representation.                                                         *)
(*   text       a sequence of one-character strings, "" is << >>           *)
(*   number     a double << k, << f1, f2, f3, f4 >> >>: the integer part   *)
(*              and the fraction in four limbs of 20 bits (durations and   *)
(*              averages); counters that the source only increments are    *)
(*              plain integers                                             *)
(*   character  a one-character string; a character that cannot be written *)
(*              in a string is named by its code point, "U+00A0"           *)
(*   played_at  the day number of the ISO date; getTime orders the days    *)
(*   is_winner  "true", "false" or "null" (BOOLEAN column, nullable)       *)
(***************************************************************************)
EXTENDS Integers, Sequences, FiniteSets

VARIABLES
    minutes,        \* duration round trip: the number handed to formatMinutesToTime
    timeStr,        \* duration round trip: the text handed to parseTimeToMinutes
    parsed,         \* duration round trip: the number parseTimeToMinutes returned
    durPc,          \* duration round trip: "input" -> "formatted" -> "parsed"
    timeInput,      \* duration parsing: the value handed to parseTimeToMinutes
    statsInput,     \* calculateStats of useStats: the match list handed to it
    statsResult,    \* calculateStats of useStats: what it returned
    profileInput,   \* the profile's derivation: the match_players rows handed to it
    profileResult,  \* the profile's derivation: matches, stats, achievements, headToHead
    allMatches,     \* record store: the matches with their rows, in insertion order
    stats,          \* useStats: the hook's state (setStats)
    fetches,        \* useStats: every run started so far, pending or done
    matchPlayers,   \* record store: the profile player's match_players rows, newest first
    profile,        \* usePlayerProfile: the hook's state (setProfile)
    profileFetches, \* usePlayerProfile: every run started so far, pending or done
    form,           \* Submit: the form's state (outcome, players)
    edit,           \* EditMatchModal: the modal's state, NoEdit while closed
    matchTable,     \* record store: the matches with their match_players rows
    players,        \* record store: the players table
    nameUnique,     \* record store: players.name carries a unique constraint
    auth,           \* useAuth: the hook's state (setState), per browser
    cache,          \* useAuth: the player cached in localStorage, per browser
    cacheExpired,   \* useAuth: the cached entry is more than 30 days old, per browser
    tasks,          \* useAuth: the asynchronous calls in flight, per browser
    signedOut,      \* useAuth: signed out since the last SIGNED_IN, per browser
    page,           \* useMatches: the hook's state
    pageFetches     \* useMatches: the fetches in flight

durVars == << minutes, timeStr, parsed, durPc, timeInput >>
statsVars == << allMatches, stats, fetches >>
profileVars == << matchPlayers, profile, profileFetches >>
calcVars == << statsInput, statsResult, profileInput, profileResult >>
formVars == << form, edit >>
tableVars == << matchTable, players, nameUnique >>
authVars == << auth, cache, cacheExpired, tasks, signedOut >>
pageVars == << page, pageFetches >>
appVars == << formVars, tableVars, authVars, pageVars >>
restVars == << appVars, calcVars >>
vars == << minutes, timeStr, parsed, durPc, timeInput, statsInput, statsResult,
           profileInput, profileResult, allMatches, stats, fetches,
           matchPlayers, profile, profileFetches, form, edit, matchTable, players,
           nameUnique, auth, cache, cacheExpired, tasks,
           signedOut, page, pageFetches >>

----------------------------------------------------------------------------
(* Bounds                                                                   *)

\* the largest number of minutes put through the round trip
MaxMinutes == 130

\* the most matches in one player's history (streaks)
MaxHistory == 6

\* the played_at days of the matches of a history
MaxDate == 2

\* the most matches in the record store (leaderboard)
MaxMatches == 3

\* the most rows in the profile player's history
MaxProfileRows == 4

\* the most matches the profile player shares with opponents
MaxSharedMatches == 3

\* the largest win count a stats summary handed to calculateAchievements claims
MaxSummaryWins == 2

\* the most rows of a history handed to calculateAchievements with a summary
MaxSummaryRows == 2

\* the most matches in the record store (match durations)
MaxTimedMatches == 4

\* the most matches in the record store (leaderboard order)
MaxOrderMatches == 3

\* the most matches in the record store (chart series)
MaxChartMatches == 3

\* the most rows in the history of a player who climbs the win tiers, and the
\* number of its first matches that may be lost or dated on any day
MaxTierRows == 51

MaxTierPrefix == 2

\* the most rows in the history of a player who climbs the streak tiers, the
\* number of its first matches that may be dated on any day, and the most
\* losses in it
MaxStreakRows == 11

MaxStreakPrefix == 1

MaxStreakLosses == 2

\* the most rows in the history of a player who wins timed matches
MaxSpeedRows == 3

\* the largest amount written in a component of a duration text
MaxAmount == 42

\* the most fetches started by one mounted hook, and the most matches
\* submitted meanwhile
MaxFetches == 2

MaxSubmits == 2

\* the most rows in the profile player's history while queries fail
MaxFailRows == 1

\* the most players in the Submit form
MaxFormPlayers == 2

\* the largest id generateId hands out to a Submit form
MaxFormIds == MaxFormPlayers + 1

\* the most matches submitted while profiles are set up
MaxSubmissions == 2

\* the most handleSession calls that wait for fetchPlayer at a time
MaxSessionFetches == 2

\* the most signOut requests of a browser in flight at a time
MaxSignOuts == 1

\* the most player records in the table when a profile setup of the followed
\* session starts
MaxSessionPlayers == 1

\* the most rows in the history of a player who meets one opponent
MaxRivalRows == 11

\* the rows of that history whose winner varies
MaxRivalPrefix == 6

\* the most matches in the store both pages read
MaxAgreeMatches == 3

\* the matches in the record store the gallery reads
StoreSize == 5

\* the limit option of useMatches
PageLimit == 2

\* the most fetches of the gallery in flight at a time
MaxPageFetches == 2

----------------------------------------------------------------------------
(* Numbers                                                                  *)

\* A number is an IEEE 754 double that is not negative, written in fixed
\* point: << k, << f1, f2, f3, f4 >> >> stands for
\*     k + f1 / 2^20 + f2 / 2^40 + f3 / 2^60 + f4 / 2^80,
\* k the integer part and f1..f4 the fraction in limbs of 20 bits. Every
\* operation rounds its exact result to the 53 significant bits of a double,
\* ties to the even neighbour, as the arithmetic of the language does. The
\* numbers of the model are below 2^31 and, unless zero, above 2^-26.

Limb == 2 ^ 20

NoFraction == << 0, 0, 0, 0 >>

Num(k) == << k, NoFraction >>

Zero == Num(0)

Infinity == << -1, NoFraction >>

Max(a, b) == IF a >= b THEN a ELSE b

\* the number of bits of a non-negative integer below 2^31
BitLength(k) == IF k = 0 THEN 0 ELSE CHOOSE b \in 1..31 : 2 ^ (b - 1) <= k /\ (b = 31 \/ k < 2 ^ b)

\* the zero bits the fraction f starts with
LeadingZeros(f) ==
    IF f = NoFraction THEN 80
    ELSE LET j == CHOOSE i \in 1..4 : f[i] # 0 /\ \A h \in 1..(i - 1) : f[h] = 0
         IN  20 * j - BitLength(f[j])

\* the fraction bits a double of integer part k and fraction f has room for
Kept(k, f) ==
    IF k > 0 THEN 53 - BitLength(k)
    ELSE IF LeadingZeros(f) + 53 < 80 THEN LeadingZeros(f) + 53 ELSE 79

\* k + 0.f with the carries of limbs that reached 2^20 taken upwards
Carried(k, f) ==
    LET g4 == f[4]
        g3 == f[3] + g4 \div Limb
        g2 == f[2] + g3 \div Limb
        g1 == f[1] + g2 \div Limb
    IN  << k + g1 \div Limb, << g1 % Limb, g2 % Limb, g3 % Limb, g4 % Limb >> >>

\* the double nearest to k + 0.f, and to a little more than that when more is set
RoundToDouble(k, f, more) ==
    LET p == Kept(k, f)
        j == (p - 1) \div 20 + 1
        unit == 2 ^ (20 * j - p)
        below == [ i \in 1..4 |-> \E h \in (i + 1)..4 : f[h] # 0 ]
        guard == IF unit > 1 THEN (f[j] % unit) \div (unit \div 2)
                 ELSE f[j + 1] \div (Limb \div 2)
        rest == \/ more
                \/ IF unit > 1 THEN (f[j] % (unit \div 2)) # 0 \/ below[j]
                   ELSE (f[j + 1] % (Limb \div 2)) # 0 \/ below[j + 1]
        last == (f[j] \div unit) % 2
        up == IF guard = 1 /\ (rest \/ last = 1) THEN unit ELSE 0
    IN  Carried(k, [ i \in 1..4 |-> IF i < j THEN f[i]
                                    ELSE IF i = j THEN f[j] - (f[j] % unit) + up
                                    ELSE 0 ])

\* a + b
Add(a, b) ==
    LET sum == Carried(a[1] + b[1], [ i \in 1..4 |-> a[2][i] + b[2][i] ])
    IN  RoundToDouble(sum[1], sum[2], FALSE)

\* a * n for an integer n below 2^11
Mul(a, n) ==
    LET t4 == a[2][4] * n
        t3 == a[2][3] * n + t4 \div Limb
        t2 == a[2][2] * n + t3 \div Limb
        t1 == a[2][1] * n + t2 \div Limb
    IN  RoundToDouble(a[1] * n + t1 \div Limb,
                      << t1 % Limb, t2 % Limb, t3 % Limb, t4 % Limb >>, FALSE)

\* a / n for a positive integer n below 2^11: the long division limb by limb
Div(a, n) ==
    LET t1 == (a[1] % n) * Limb + a[2][1]
        t2 == (t1 % n) * Limb + a[2][2]
        t3 == (t2 % n) * Limb + a[2][3]
        t4 == (t3 % n) * Limb + a[2][4]
    IN  RoundToDouble(a[1] \div n, << t1 \div n, t2 \div n, t3 \div n, t4 \div n >>,
                      t4 % n # 0)

\* a % n for a positive integer n
Mod(a, n) == << a[1] % n, a[2] >>

\* a < b
Less(a, b) ==
    IF b = Infinity THEN a # Infinity
    ELSE IF a = Infinity THEN FALSE
    ELSE \/ a[1] < b[1]
         \/ /\ a[1] = b[1]
            /\ \E i \in 1..4 : a[2][i] < b[2][i] /\ \A h \in 1..(i - 1) : a[2][h] = b[2][h]

\* Math.floor
Floor(a) == a[1]

\* Math.round: halves round up
Round(a) == a[1] + a[2][1] \div (Limb \div 2)

----------------------------------------------------------------------------
(* Text                                                                     *)

Digits == << "0", "1", "2", "3", "4", "5", "6", "7", "8", "9" >>

IsDigit(c) == \E i \in 1..10 : Digits[i] = c

DigitVal(c) == (CHOOSE i \in 1..10 : Digits[i] = c) - 1

\* the characters \s of a regular expression matches and trim removes: space,
\* tab, line feed, carriage return, form feed, and by code point the vertical
\* tab, the no-break space, the Unicode space separators, the line and
\* paragraph separators and the byte order mark
WhiteSpace ==
    { " ", "\t", "\n", "\r", "\f", "U+000B", "U+00A0", "U+1680", "U+2000", "U+2001",
      "U+2002", "U+2003", "U+2004", "U+2005", "U+2006", "U+2007", "U+2008", "U+2009",
      "U+200A", "U+2028", "U+2029", "U+202F", "U+205F", "U+3000", "U+FEFF" }

IsSpace(c) == c \in WhiteSpace

\* parseInt(text, 10) of a run of decimal digits
RECURSIVE parseInt(_)
parseInt(ds) ==
    IF ds = << >> THEN 0
    ELSE parseInt(SubSeq(ds, 1, Len(ds) - 1)) * 10 + DigitVal(ds[Len(ds)])

\* String(n) of a non-negative integer
RECURSIVE NumToText(_)
NumToText(n) ==
    IF n < 10 THEN << Digits[n + 1] >>
    ELSE NumToText(n \div 10) \o << Digits[(n % 10) + 1] >>

\* the last index of the run of digits that starts at i
RECURSIVE DigitRunEnd(_, _)
DigitRunEnd(s, i) ==
    IF i < Len(s) /\ IsDigit(s[i + 1]) THEN DigitRunEnd(s, i + 1) ELSE i

\* the first index at or after i that holds no white space
RECURSIVE SkipSpace(_, _)
SkipSpace(s, i) ==
    IF i <= Len(s) /\ IsSpace(s[i]) THEN SkipSpace(s, i + 1) ELSE i

\* /(\d+)\s*u/i matches at index i; lower and upper are the two cases of u
MatchesAt(s, i, lower, upper) ==
    /\ IsDigit(s[i])
    /\ LET k == SkipSpace(s, DigitRunEnd(s, i) + 1)
       IN  k <= Len(s) /\ s[k] \in { lower, upper }

\* the captured digits of the match that starts at index i
DigitsAt(s, i) == SubSeq(s, i, DigitRunEnd(s, i))

\* the leftmost of the indexes where the pattern matches
Leftmost(hits) == CHOOSE h \in hits : \A g \in hits : h <= g

FirstMatch(s, hits) == IF hits = {} THEN "none" ELSE DigitsAt(s, Leftmost(hits))

\* RegexDigits without the i flag
RegexDigitsCaseSensitive(s, lower, upper) ==
    FirstMatch(s, { i \in 1..Len(s) : MatchesAt(s, i, lower, lower) })

\* timeStr.match(/(\d+)\s*u/i): the digits of the leftmost match, or "none"
\* (\d+ is greedy, and giving digits back never lets \s*u match)
RegexDigits(s, lower, upper) ==
    FirstMatch(s, { i \in 1..Len(s) : MatchesAt(s, i, lower, upper) })

----------------------------------------------------------------------------
(* Duration parser (lib/utils)                                              *)

\* parseInt(match[1], 10) when the pattern matched, and nothing added otherwise
Component(digits) == IF digits = "none" THEN 0 ELSE parseInt(digits)

\* totalMinutes after += hours * 60, += minutes and += seconds / 60
TotalMinutes(hours, mins, secs) == Add(Num(hours * 60 + mins), Div(Num(secs), 60))

\* parseTimeToMinutes with the hours not converted to minutes
ParseHoursUnscaled(s) ==
    IF s = << >> THEN Zero
    ELSE Add(Num(Component(RegexDigits(s, "h", "H")) + Component(RegexDigits(s, "m", "M"))),
             Div(Num(Component(RegexDigits(s, "s", "S"))), 60))

parseTimeToMinutes(s) ==
    IF s = << >> THEN Zero
    ELSE TotalMinutes(Component(RegexDigits(s, "h", "H")),
                      Component(RegexDigits(s, "m", "M")),
                      Component(RegexDigits(s, "s", "S")))

\* a value handed to parseTimeToMinutes: a string with its text, or a value
\* of another type (undefined, null, a number)
StringValue(text) == [ type |-> "string", text |-> text ]

NoInput == [ type |-> "undefined", text |-> << >> ]

\* parseTimeToMinutes of any value: typeof timeStr !== 'string' returns 0
parseTimeValue(v) == IF v.type # "string" THEN Zero ELSE parseTimeToMinutes(v.text)

\* the text of hours and mins, both already integers
Render(hours, mins) ==
    IF hours > 0 /\ mins > 0
        THEN NumToText(hours) \o << "h", " " >> \o NumToText(mins) \o << "m" >>
    ELSE IF hours > 0 THEN NumToText(hours) \o << "h" >>
    ELSE NumToText(mins) \o << "m" >>

\* Math.round(minutes % 60)
RoundedRest(q) == Round(Mod(q, 60))

RenderFrom(q, hours) == Render(hours, RoundedRest(q))

formatMinutesToTime(q) ==
    IF Less(q, Num(1)) THEN << "<", " ", "1", "m" >>
    ELSE RenderFrom(q, Floor(Div(q, 60)))

----------------------------------------------------------------------------
(* Record store rows (types/index.ts, schema.sql)                           *)

PlayerIds == { "p1", "p2", "p3", "p4" }

\* players.name: TEXT NOT NULL with no uniqueness constraint, and the demo
\* store builds a player record per form position with the typed name; p2 and
\* p4 are two records of the same name
PlayerName(id) ==
    CASE id = "p1" -> "Alice" [] id = "p2" -> "Bob" [] id = "p4" -> "Bob" [] OTHER -> "Cara"

PlayerColor(id) ==
    CASE id = "p1" -> "purple" [] id = "p2" -> "red" [] id = "p4" -> "green" [] OTHER -> "blue"

\* String.prototype.localeCompare on the player names: negative, zero or positive
NameRank(name) == CASE name = "Alice" -> 1 [] name = "Bob" -> 2 [] OTHER -> 3

localeCompare(a, b) == NameRank(a) - NameRank(b)

\* new Date(played_at).getTime(): milliseconds of the day's midnight
getTime(played_at) == played_at * 86400000

\* a match_players row nested in a match
MP(pid, win) == [ player_id |-> pid, is_winner |-> win ]

\* a match with its nested match_players
Match(date, outcome, time, mps) ==
    [ id |-> 0, played_at |-> date, outcome |-> outcome, time_taken |-> time,
      match_players |-> mps ]

\* the record store gives the n-th inserted match the id n
WithId(m, n) == [ m EXCEPT !.id = n ]

\* metadata.time_taken is truthy: present and not the empty string
HasTime(m) == m.time_taken # << >>

\* is_winner is truthy
Truthy(w) == w = "true"

----------------------------------------------------------------------------
(* Stats aggregator: calculateStats of useStats                             *)

\* what the inner forEach reads of one match_players row of match m
Visit(m, mp) ==
    [ playerId |-> mp.player_id,
      isWin |-> mp.is_winner = "true",
      date |-> m.played_at,
      matchMinutes |-> IF HasTime(m) THEN parseTimeToMinutes(m.time_taken) ELSE Zero ]

VisitsOf(m) == [ i \in 1..Len(m.match_players) |-> Visit(m, m.match_players[i]) ]

\* the (match, match_players row) pairs in the order the two forEach loops
\* visit them
RECURSIVE Visits(_)
Visits(matches) ==
    IF matches = << >> THEN << >>
    ELSE VisitsOf(Head(matches)) \o Visits(Tail(matches))

\* MapKeys without the playerMap.has test: one entry per visit
RECURSIVE MapKeysNoHasTest(_, _)
MapKeysNoHasTest(visits, seen) ==
    IF visits = << >> THEN << >>
    ELSE << Head(visits).playerId >> \o MapKeysNoHasTest(Tail(visits), seen)

\* the keys of playerMap in insertion order
RECURSIVE MapKeys(_, _)
MapKeys(visits, seen) ==
    IF visits = << >> THEN << >>
    ELSE IF Head(visits).playerId \in seen THEN MapKeys(Tail(visits), seen)
    ELSE << Head(visits).playerId >>
         \o MapKeys(Tail(visits), seen \cup { Head(visits).playerId })

\* x put behind the k first elements of sorted
InsertAt(sorted, k, x) == SubSeq(sorted, 1, k) \o << x >> \o SubSeq(sorted, k + 1, Len(sorted))

\* x put behind the elements of sorted that the comparator does not put after it
InsertByDate(sorted, x) ==
    InsertAt(sorted,
             Cardinality({ i \in 1..Len(sorted) :
                             getTime(sorted[i].date) - getTime(x.date) <= 0 }),
             x)

\* Array.prototype.sort with (a, b) => getTime(a.date) - getTime(b.date):
\* stable, so equal dates keep their input order
RECURSIVE SortByDate(_)
SortByDate(h) ==
    IF h = << >> THEN << >>
    ELSE InsertByDate(SortByDate(SubSeq(h, 1, Len(h) - 1)), h[Len(h)])

\* if (matchMinutes > 0) playerStat.totalMinutes += matchMinutes, visit by
\* visit: the additions run from the first visit on, ((0 + a) + b) + c
RECURSIVE SumMinutes(_)
SumMinutes(h) ==
    IF h = << >> THEN Zero
    ELSE LET total == SumMinutes(SubSeq(h, 1, Len(h) - 1))
             matchMinutes == h[Len(h)].matchMinutes
         IN  IF Less(Zero, matchMinutes) THEN Add(total, matchMinutes) ELSE total

\* StreakLoop without the reset of tempStreak on a non-win
RECURSIVE StreakLoopNoReset(_, _, _)
StreakLoopNoReset(history, i, st) ==
    IF i = 0 THEN st
    ELSE IF history[i].isWin
        THEN LET temp == st[3] + 1
             IN  StreakLoopNoReset(history, i - 1,
                                   << IF i = Len(history) THEN temp ELSE st[1],
                                      Max(st[2], temp), temp >>)
    ELSE StreakLoopNoReset(history, i - 1, st)

\* StreakLoop taking the maximum before tempStreak is incremented
RECURSIVE StreakLoopStaleMax(_, _, _)
StreakLoopStaleMax(history, i, st) ==
    IF i = 0 THEN st
    ELSE IF history[i].isWin
        THEN LET temp == st[3] + 1
             IN  StreakLoopStaleMax(history, i - 1,
                                    << IF i = Len(history) THEN temp ELSE st[1],
                                       Max(st[2], st[3]), temp >>)
    ELSE StreakLoopStaleMax(history, i - 1, << st[1], st[2], 0 >>)

\* the streak loop, from index i down to 1; st = << currentStreak,
\* longestStreak, tempStreak >>
RECURSIVE StreakLoop(_, _, _)
StreakLoop(history, i, st) ==
    IF i = 0 THEN st
    ELSE IF history[i].isWin
        THEN LET temp == st[3] + 1
             IN  StreakLoop(history, i - 1,
                            << IF i = Len(history) THEN temp ELSE st[1],
                               Max(st[2], temp), temp >>)
    ELSE StreakLoop(history, i - 1, << st[1], st[2], 0 >>)

\* playerMatchHistory.get(playerId), sorted by date
PlayerHistory(matches, pid) ==
    SortByDate(SelectSeq(Visits(matches), LAMBDA v : v.playerId = pid))

\* the PlayerStats entry from the counters of the loops; st is StreakLoop's result
StatRow(pid, n, wins, total, st) ==
    [ playerId |-> pid,
      playerName |-> PlayerName(pid),
      playerColor |-> PlayerColor(pid),
      wins |-> wins,
      matches |-> n,
      winRate |-> IF n > 0 THEN Mul(Div(Num(wins), n), 100) ELSE Zero,
      totalMinutes |-> total,
      avgMinutes |-> IF n > 0 THEN Div(total, n) ELSE Zero,
      currentStreak |-> st[1],
      longestStreak |-> st[2] ]

\* the PlayerStats entry of one player, mine being the visits of that player
StatOfVisits(pid, mine) ==
    StatRow(pid, Len(mine), Len(SelectSeq(mine, LAMBDA v : v.isWin)), SumMinutes(mine),
            StreakLoop(SortByDate(mine), Len(mine), << 0, 0, 0 >>))

PlayerStat(visits, pid) ==
    StatOfVisits(pid, SelectSeq(visits, LAMBDA v : v.playerId = pid))

\* the leaderboard comparator: wins, then matches, then name
RowCompare(a, b) ==
    IF b.wins # a.wins THEN b.wins - a.wins
    ELSE IF b.matches # a.matches THEN b.matches - a.matches
    ELSE localeCompare(a.playerName, b.playerName)

InsertRow(sorted, x) ==
    InsertAt(sorted, Cardinality({ i \in 1..Len(sorted) : RowCompare(sorted[i], x) <= 0 }), x)

\* Array.prototype.sort with RowCompare (stable)
RECURSIVE SortRows(_)
SortRows(rows) ==
    IF rows = << >> THEN << >>
    ELSE InsertRow(SortRows(SubSeq(rows, 1, Len(rows) - 1)), rows[Len(rows)])

\* DurationStep with <= and >= for < and >: a tie replaces the match kept
DurationStepLastWins(d, id, mins) ==
    [ totalMinutes |-> Add(d.totalMinutes, mins),
      matchesWithTime |-> d.matchesWithTime + 1,
      longest |-> IF ~Less(mins, d.longestMinutes) THEN id ELSE d.longest,
      longestMinutes |-> IF ~Less(mins, d.longestMinutes) THEN mins ELSE d.longestMinutes,
      shortest |-> IF ~Less(d.shortestMinutes, mins) THEN id ELSE d.shortest,
      shortestMinutes |-> IF ~Less(d.shortestMinutes, mins) THEN mins
                          ELSE d.shortestMinutes ]

\* one pass of the duration loop for a match of mins > 0 minutes; d =
\* [ totalMinutes, matchesWithTime, longest, shortest, longestMinutes,
\* shortestMinutes ], a match is named by its id, 0 is null, and
\* shortestMinutes starts at Infinity
DurationStep(d, id, mins) ==
    [ totalMinutes |-> Add(d.totalMinutes, mins),
      matchesWithTime |-> d.matchesWithTime + 1,
      longest |-> IF Less(d.longestMinutes, mins) THEN id ELSE d.longest,
      longestMinutes |-> IF Less(d.longestMinutes, mins) THEN mins ELSE d.longestMinutes,
      shortest |-> IF Less(mins, d.shortestMinutes) THEN id ELSE d.shortest,
      shortestMinutes |-> IF Less(mins, d.shortestMinutes) THEN mins
                          ELSE d.shortestMinutes ]

\* DurationOf without the minutes > 0 test
DurationOfAnyMinutes(d, id, mins) == DurationStep(d, id, mins)

DurationOf(d, id, mins) == IF Less(Zero, mins) THEN DurationStep(d, id, mins) ELSE d

RECURSIVE DurationLoop(_, _)
DurationLoop(matches, d) ==
    IF matches = << >> THEN d
    ELSE IF HasTime(Head(matches))
        THEN DurationLoop(Tail(matches),
                          DurationOf(d, Head(matches).id,
                                     parseTimeToMinutes(Head(matches).time_taken)))
    ELSE DurationLoop(Tail(matches), d)

\* x put behind the matches of sorted that the comparator does not put after it
InsertMatchByDate(sorted, x) ==
    InsertAt(sorted,
             Cardinality({ i \in 1..Len(sorted) :
                             getTime(sorted[i].played_at) - getTime(x.played_at) <= 0 }),
             x)

\* [...matches].sort by getTime(played_at), oldest first (stable)
RECURSIVE SortMatchesByDate(_)
SortMatchesByDate(matches) ==
    IF matches = << >> THEN << >>
    ELSE InsertMatchByDate(SortMatchesByDate(SubSeq(matches, 1, Len(matches) - 1)),
                           matches[Len(matches)])

\* the keys of matchesByDate in insertion order: played_at.split('T')[0] of a
\* DATE is the date itself
RECURSIVE DateKeys(_, _)
DateKeys(sorted, seen) ==
    IF sorted = << >> THEN << >>
    ELSE IF Head(sorted).played_at \in seen THEN DateKeys(Tail(sorted), seen)
    ELSE << Head(sorted).played_at >>
         \o DateKeys(Tail(sorted), seen \cup { Head(sorted).played_at })

\* matchesByDate.get(date)
DayMatches(sorted, date) == SelectSeq(sorted, LAMBDA m : m.played_at = date)

\* cumulativeWins after one match_players row; cum maps player names to counts
\* and old is the count the row finds (0 when the name is new)
CountWin(cum, name, old, win) ==
    [ n \in DOMAIN cum \cup { name } |->
        IF n = name THEN (IF Truthy(win) THEN old + 1 ELSE old) ELSE cum[n] ]

CumulativeStep(cum, mp) ==
    CountWin(cum, PlayerName(mp.player_id),
             IF PlayerName(mp.player_id) \in DOMAIN cum
                 THEN cum[PlayerName(mp.player_id)] ELSE 0,
             mp.is_winner)

RECURSIVE CumulativeOfPlayers(_, _)
CumulativeOfPlayers(cum, mps) ==
    IF mps = << >> THEN cum
    ELSE CumulativeOfPlayers(CumulativeStep(cum, Head(mps)), Tail(mps))

RECURSIVE CumulativeOfMatches(_, _)
CumulativeOfMatches(cum, dayMatches) ==
    IF dayMatches = << >> THEN cum
    ELSE CumulativeOfMatches(CumulativeOfPlayers(cum, Head(dayMatches).match_players),
                             Tail(dayMatches))

\* matchesByDate.forEach: one data point per date, holding the counts after
\* the matches of that date
RECURSIVE WinsLoop(_, _, _)
WinsPoint(sorted, dates, cum) ==
    << [ date |-> Head(dates), wins |-> cum ] >> \o WinsLoop(sorted, Tail(dates), cum)

WinsLoop(sorted, dates, cum) ==
    IF dates = << >> THEN << >>
    ELSE WinsPoint(sorted, dates, CumulativeOfMatches(cum, DayMatches(sorted, Head(dates))))

WinsOverTime(sorted) == WinsLoop(sorted, DateKeys(sorted, {}), [ n \in {} |-> 0 ])

\* the winsOverTime series of chartData
calculateChartData(matches) ==
    [ winsOverTime |-> WinsOverTime(SortMatchesByDate(matches)) ]

\* the object calculateStats returns
StatsResult(n, d, visits, keys, chart) ==
    [ totalHours |-> Div(d.totalMinutes, 60),
      totalMatches |-> n,
      playerStats |-> SortRows([ i \in 1..Len(keys) |-> PlayerStat(visits, keys[i]) ]),
      matchDurationStats |->
          [ longest |-> d.longest,
            shortest |-> d.shortest,
            averageMinutes |-> IF d.matchesWithTime > 0
                               THEN Div(d.totalMinutes, d.matchesWithTime)
                               ELSE Zero,
            totalMinutes |-> d.totalMinutes ],
      chartData |-> chart ]

StatsOfVisits(n, d, visits, chart) == StatsResult(n, d, visits, MapKeys(visits, {}), chart)

calculateStats(matches) ==
    StatsOfVisits(Len(matches),
                  DurationLoop(matches,
                      [ totalMinutes |-> Zero, matchesWithTime |-> 0, longest |-> 0,
                        shortest |-> 0, longestMinutes |-> Zero,
                        shortestMinutes |-> Infinity ]),
                  Visits(matches),
                  calculateChartData(matches))

----------------------------------------------------------------------------
(* Player profile: calculateStats of usePlayerProfile                       *)

\* a fetched match_players row of the profile's player, with its nested match
Row(pid, m) ==
    [ is_winner |-> (CHOOSE k \in { m.match_players[i] : i \in 1..Len(m.match_players) } :
                        k.player_id = pid).is_winner,
      match |-> m ]

\* [...matchPlayers].sort by getTime(match.played_at), stable: the rows of
\* the earliest time in their order, then the other rows sorted
RECURSIVE SortRowsByDate(_)

\* the rows of time t, which no row of rows precedes, before the sorted rest
EarliestFirst(rows, t) ==
    SelectSeq(rows, LAMBDA r : getTime(r.match.played_at) - t = 0)
    \o SortRowsByDate(SelectSeq(rows, LAMBDA r : getTime(r.match.played_at) - t # 0))

SortRowsByDate(rows) ==
    IF rows = << >> THEN << >>
    ELSE EarliestFirst(rows,
             CHOOSE t \in { getTime(rows[i].match.played_at) : i \in 1..Len(rows) } :
                 \A i \in 1..Len(rows) : t - getTime(rows[i].match.played_at) <= 0)

\* one pass of the forEach of calculateStats on a row of mins minutes (0
\* without a recorded time); a = [ wins, blackoutWins, bingoWins,
\* totalMinutes, matchesWithTime, longestStreak, tempStreak ]
ProfileStep(a, isWin, outcome, mins) ==
    [ wins |-> IF isWin THEN a.wins + 1 ELSE a.wins,
      tempStreak |-> IF isWin THEN a.tempStreak + 1 ELSE 0,
      longestStreak |-> IF isWin THEN Max(a.longestStreak, a.tempStreak + 1)
                        ELSE a.longestStreak,
      blackoutWins |-> IF isWin /\ outcome = "blackout" THEN a.blackoutWins + 1
                       ELSE a.blackoutWins,
      bingoWins |-> IF isWin /\ outcome = "bingo" THEN a.bingoWins + 1 ELSE a.bingoWins,
      totalMinutes |-> IF Less(Zero, mins) THEN Add(a.totalMinutes, mins)
                       ELSE a.totalMinutes,
      matchesWithTime |-> IF Less(Zero, mins) THEN a.matchesWithTime + 1
                          ELSE a.matchesWithTime ]

\* the minutes a row's match lasted, 0 without a recorded time
RowMinutes(mp) ==
    IF HasTime(mp.match) THEN parseTimeToMinutes(mp.match.time_taken) ELSE Zero

\* the forEach of calculateStats over the rows lo..hi of sorted, in their
\* order: the passes over the first half, then those over the second half on
\* the counters the first half left
RECURSIVE ProfileLoop(_, _, _, _)
ProfileLoop(sorted, lo, hi, a) ==
    IF lo > hi THEN a
    ELSE IF lo = hi
        THEN ProfileStep(a, sorted[lo].is_winner = "true", sorted[lo].match.outcome,
                         RowMinutes(sorted[lo]))
    ELSE CHOOSE r \in { ProfileLoop(sorted, (lo + hi) \div 2 + 1, hi, left) :
                         left \in { ProfileLoop(sorted, lo, (lo + hi) \div 2, a) } } : TRUE

\* the current-streak loop: the rows with is_winner set that it counts from
\* index i down, until it breaks at the nearest row without
TrailingWinCount(sorted, i) ==
    i - (CHOOSE j \in 0..i :
            /\ j > 0 => ~Truthy(sorted[j].is_winner)
            /\ \A k \in (j + 1)..i : Truthy(sorted[k].is_winner))

\* the object calculateStats returns
ProfileSummary(totalMatches, a, currentStreak) ==
    [ totalMatches |-> totalMatches,
      wins |-> a.wins,
      losses |-> totalMatches - a.wins,
      winRate |-> IF totalMatches > 0 THEN Mul(Div(Num(a.wins), totalMatches), 100) ELSE Zero,
      totalMinutes |-> a.totalMinutes,
      avgMinutes |-> IF a.matchesWithTime > 0
                     THEN Div(a.totalMinutes, a.matchesWithTime) ELSE Zero,
      currentStreak |-> currentStreak,
      longestStreak |-> a.longestStreak,
      blackoutWins |-> a.blackoutWins,
      bingoWins |-> a.bingoWins ]

SummaryOfSorted(totalMatches, sorted) ==
    ProfileSummary(totalMatches,
                   ProfileLoop(sorted, 1, Len(sorted),
                       [ wins |-> 0, tempStreak |-> 0, longestStreak |-> 0,
                         blackoutWins |-> 0, bingoWins |-> 0, totalMinutes |-> Zero,
                         matchesWithTime |-> 0 ]),
                   TrailingWinCount(sorted, Len(sorted)))

calculateProfileStats(matches, rows) == SummaryOfSorted(Len(matches), SortRowsByDate(rows))

----------------------------------------------------------------------------
(* Achievement evaluator: calculateAchievements                             *)

\* the ids of the catalog ACHIEVEMENTS
ACHIEVEMENTS ==
    { "first-blood", "veteran", "champion", "legend", "hot-streak", "unstoppable",
      "elden-lord", "speed-demon", "lightning", "dedicated", "regular", "addicted",
      "blackout-king", "perfectionist", "survivor", "rivalry" }

\* ACHIEVEMENTS.find(a => a.id === id)
FindAchievement(id) == IF id \in ACHIEVEMENTS THEN id ELSE "undefined"

\* the empty string as an unlock date (the days start at 1)
Blank == 0

\* getNthWinDate comparing count with n before counting the win: the
\* played_at of the win after the n-th
NthWinDateLateCount(sorted, n) ==
    LET wins == SelectSeq(sorted, LAMBDA mp : Truthy(mp.is_winner))
    IN  IF Len(wins) >= n + 1 THEN wins[n + 1].match.played_at ELSE Blank

\* count reaches n on the n-th row of sorted with is_winner set: the loop
\* returns that row's played_at, and '' after the rows when they are fewer
getNthWinDate(sorted, n) ==
    LET wins == SelectSeq(sorted, LAMBDA mp : Truthy(mp.is_winner))
    IN  IF Len(wins) >= n THEN wins[n].match.played_at ELSE Blank

\* the same loop counting the rows won with the outcome blackout
getNthBlackoutDate(sorted, n) ==
    LET wins == SelectSeq(sorted, LAMBDA mp :
                    Truthy(mp.is_winner) /\ mp.match.outcome = "blackout")
    IN  IF Len(wins) >= n THEN wins[n].match.played_at ELSE Blank

RECURSIVE StreakDateNoReset(_, _, _, _)
StreakDateNoReset(sorted, streak, i, count) ==
    IF i > Len(sorted) THEN Blank
    ELSE IF Truthy(sorted[i].is_winner)
        THEN IF count + 1 = streak THEN sorted[i].match.played_at
             ELSE StreakDateNoReset(sorted, streak, i + 1, count + 1)
    ELSE StreakDateNoReset(sorted, streak, i + 1, count)

RECURSIVE getStreakDate(_, _, _, _)
getStreakDate(sorted, streak, i, count) ==
    IF i > Len(sorted) THEN Blank
    ELSE IF Truthy(sorted[i].is_winner)
        THEN IF count + 1 = streak THEN sorted[i].match.played_at
             ELSE getStreakDate(sorted, streak, i + 1, count + 1)
    ELSE getStreakDate(sorted, streak, i + 1, 0)

\* sorted.find(test)?.match.played_at || '' and filtered[0].match.played_at
FirstDate(found) == IF found = << >> THEN Blank ELSE found[1].match.played_at

\* sortedMatchPlayers[k - 1]?.match.played_at || ''
DateAt(sorted, k) == IF k <= Len(sorted) THEN sorted[k].match.played_at ELSE Blank

Unlock(cond, id, date) ==
    IF cond THEN << [ achievement |-> FindAchievement(id), unlockedAt |-> date ] >>
    ELSE << >>

\* unlocked when the filter found a row, dated by the first row found
UnlockFound(id, found) == Unlock(found # << >>, id, FirstDate(found))

\* the minutes of a row's match with a recorded time
Minutes(mp) == parseTimeToMinutes(mp.match.time_taken)

InRange(mins, limit) == Less(Zero, mins) /\ Less(mins, Num(limit))

\* TimedWin without the is_winner test
TimedAnyResult(mp, limit) == HasTime(mp.match) /\ InRange(Minutes(mp), limit)

\* a win with a recorded duration of less than limit minutes
TimedWin(mp, limit) ==
    Truthy(mp.is_winner) /\ HasTime(mp.match) /\ InRange(Minutes(mp), limit)

\* a match with a recorded duration of 180 minutes or more
LongMatch(mp) == HasTime(mp.match) /\ ~Less(Minutes(mp), Num(180))

\* the entries pushed to unlocked, in the order of the code
Unlocked(sorted, st) ==
    Unlock(st.wins >= 1, "first-blood",
           FirstDate(SelectSeq(sorted, LAMBDA mp : Truthy(mp.is_winner))))
    \o Unlock(st.wins >= 10, "veteran", getNthWinDate(sorted, 10))
    \o Unlock(st.wins >= 25, "champion", getNthWinDate(sorted, 25))
    \o Unlock(st.wins >= 50, "legend", getNthWinDate(sorted, 50))
    \o Unlock(st.longestStreak >= 3, "hot-streak", getStreakDate(sorted, 3, 1, 0))
    \o Unlock(st.longestStreak >= 5, "unstoppable", getStreakDate(sorted, 5, 1, 0))
    \o Unlock(st.longestStreak >= 10, "elden-lord", getStreakDate(sorted, 10, 1, 0))
    \o UnlockFound("speed-demon", SelectSeq(sorted, LAMBDA mp : TimedWin(mp, 60)))
    \o UnlockFound("lightning", SelectSeq(sorted, LAMBDA mp : TimedWin(mp, 45)))
    \o Unlock(st.totalMatches >= 10, "dedicated", DateAt(sorted, 10))
    \o Unlock(st.totalMatches >= 25, "regular", DateAt(sorted, 25))
    \o Unlock(st.totalMatches >= 50, "addicted", DateAt(sorted, 50))
    \o Unlock(st.blackoutWins >= 1, "blackout-king",
              FirstDate(SelectSeq(sorted, LAMBDA mp :
                  Truthy(mp.is_winner) /\ mp.match.outcome = "blackout")))
    \o Unlock(st.blackoutWins >= 5, "perfectionist", getNthBlackoutDate(sorted, 5))
    \o UnlockFound("survivor", SelectSeq(sorted, LAMBDA mp : LongMatch(mp)))

calculateAchievements(rows, st) ==
    SelectSeq(Unlocked(SortRowsByDate(rows), st), LAMBDA a : a.achievement # "undefined")

----------------------------------------------------------------------------
(* Head-to-head calculator: calculateHeadToHead                             *)

\* what the inner forEach reads of myRecord and one opponent's record
OpponentVisit(mine, other) ==
    [ opponentId |-> other.player_id,
      myWin |-> Truthy(mine.is_winner),
      theirWin |-> Truthy(other.is_winner) ]

\* the visits of one match: none when the player has no record in it
VisitsOfMatch(mine, others) ==
    IF mine = << >> THEN << >>
    ELSE [ i \in 1..Len(others) |-> OpponentVisit(mine[1], others[i]) ]

\* the (myRecord, opponentRecord) pairs in the order the loops visit them:
\* those of the first half of matches, then those of the second half
RECURSIVE OpponentVisits(_, _)
OpponentVisits(playerId, matches) ==
    IF matches = << >> THEN << >>
    ELSE IF Len(matches) = 1
        THEN VisitsOfMatch(SelectSeq(matches[1].match_players,
                                     LAMBDA mp : mp.player_id = playerId),
                           SelectSeq(matches[1].match_players,
                                     LAMBDA mp : mp.player_id # playerId))
    ELSE OpponentVisits(playerId, SubSeq(matches, 1, Len(matches) \div 2))
         \o OpponentVisits(playerId,
                           SubSeq(matches, Len(matches) \div 2 + 1, Len(matches)))

\* the keys of the opponents map in insertion order
RECURSIVE OpponentKeys(_, _)
OpponentKeys(visits, seen) ==
    IF visits = << >> THEN << >>
    ELSE IF Head(visits).opponentId \in seen THEN OpponentKeys(Tail(visits), seen)
    ELSE << Head(visits).opponentId >>
         \o OpponentKeys(Tail(visits), seen \cup { Head(visits).opponentId })

InsertByTotal(sorted, x) ==
    InsertAt(sorted, Cardinality({ i \in 1..Len(sorted) : x.total - sorted[i].total <= 0 }), x)

\* .sort((a, b) => b.total - a.total), stable
RECURSIVE SortByTotal(_)
SortByTotal(recs) ==
    IF recs = << >> THEN << >>
    ELSE InsertByTotal(SortByTotal(SubSeq(recs, 1, Len(recs) - 1)), recs[Len(recs)])

\* HeadToHeadRecord with the wins alone as total
HeadToHeadRecordTotalWins(id, wins, losses) ==
    [ opponent |-> id, wins |-> wins, losses |-> losses, total |-> wins ]

\* the record mapped from an entry of opponents
HeadToHeadRecord(id, wins, losses) ==
    [ opponent |-> id, wins |-> wins, losses |-> losses, total |-> wins + losses ]

\* OpponentRecord counting a loss whenever the player did not win
OpponentRecordLossUnlessWon(visits, id) ==
    HeadToHeadRecord(id,
        Len(SelectSeq(visits, LAMBDA v : v.opponentId = id /\ v.myWin)),
        Len(SelectSeq(visits, LAMBDA v : v.opponentId = id /\ ~v.myWin)))

\* the entry of opponent id after the loops: wins counts the visits the
\* player won, losses those the opponent won and the player did not
OpponentRecord(visits, id) ==
    HeadToHeadRecord(id,
        Len(SelectSeq(visits, LAMBDA v : v.opponentId = id /\ v.myWin)),
        Len(SelectSeq(visits, LAMBDA v : v.opponentId = id /\ ~v.myWin /\ v.theirWin)))

HeadToHeadOf(visits, keys) ==
    SortByTotal([ i \in 1..Len(keys) |-> OpponentRecord(visits, keys[i]) ])

HeadToHeadOfVisits(visits) == HeadToHeadOf(visits, OpponentKeys(visits, {}))

calculateHeadToHead(playerId, matches) ==
    HeadToHeadOfVisits(OpponentVisits(playerId, matches))

----------------------------------------------------------------------------
(* usePlayerProfile                                                         *)

\* the playerId of the profile page's route
ProfilePlayer == "p1"

\* useState(...) of usePlayerProfile
InitialProfile ==
    [ player |-> "null", matches |-> << >>,
      stats |-> [ totalMatches |-> 0, wins |-> 0, losses |-> 0, winRate |-> Zero,
                  totalMinutes |-> Zero, avgMinutes |-> Zero, currentStreak |-> 0,
                  longestStreak |-> 0, blackoutWins |-> 0, bingoWins |-> 0 ],
      achievements |-> << >>, headToHead |-> << >>, loading |-> TRUE, error |-> "null" ]

\* matchPlayers.map(mp => mp.match).filter(Boolean)
MatchesOfRows(rows) == [ i \in 1..Len(rows) |-> rows[i].match ]

\* setProfile({ player, matches, stats, achievements, headToHead, ... })
LoadedProfile(rows, matches, st) ==
    [ player |-> ProfilePlayer, matches |-> matches, stats |-> st,
      achievements |-> calculateAchievements(rows, st),
      headToHead |-> calculateHeadToHead(ProfilePlayer, matches),
      loading |-> FALSE, error |-> "null" ]

ProfileOfMatches(rows, matches) ==
    LoadedProfile(rows, matches, calculateProfileStats(matches, rows))

\* what fetchProfile derives from the rows the record store answered with:
\* matches, calculateStats, calculateAchievements, calculateHeadToHead
Derived(rows) ==
    LET p == ProfileOfMatches(rows, MatchesOfRows(rows))
    IN  [ matches |-> p.matches, stats |-> p.stats, achievements |-> p.achievements,
          headToHead |-> p.headToHead ]

\* the derivation applied to the rows of a history
deriveProfile(rows) ==
    /\ profileInput' = rows
    /\ profileResult' = Derived(rows)
    /\ UNCHANGED << statsInput, statsResult, statsVars, profileVars, durVars, appVars >>

\* calculateAchievements applied to a history and a stats summary st of the
\* caller's choice
evaluateAchievements(rows, st) ==
    /\ profileInput' = rows
    /\ profileResult' = [ Derived(rows) EXCEPT !.stats = st,
                                              !.achievements = calculateAchievements(rows, st) ]
    /\ UNCHANGED << statsInput, statsResult, statsVars, profileVars, durVars, appVars >>

\* The hook runs against a configured record store; every await hands control
\* back, so runs overlap and their answers arrive in any order. A query is
\* answered with what the store holds when it is sent.

\* a match_players row of the profile player is inserted, m being the match
\* with the rows inserted for it so far
InsertOwnRow(m) ==
    /\ matchPlayers' = << Row(ProfilePlayer, WithId(m, Len(matchPlayers) + 1)) >> \o matchPlayers
    /\ UNCHANGED << profile, profileFetches, statsVars, durVars, restVars >>

\* the match_players row mp of another player is inserted for the match of
\* the profile player's row i
InsertOpponentRow(i, mp) ==
    /\ i \in 1..Len(matchPlayers)
    /\ \A k \in 1..Len(matchPlayers[i].match.match_players) :
          matchPlayers[i].match.match_players[k].player_id # mp.player_id
    /\ matchPlayers' = [ matchPlayers EXCEPT ![i].match.match_players = Append(@, mp) ]
    /\ UNCHANGED << profile, profileFetches, statsVars, durVars, restVars >>

\* fetchProfile up to its first await: the loading flag is set and the query
\* for the player leaves
fetchProfile ==
    /\ profile' = [ profile EXCEPT !.loading = TRUE, !.error = "null" ]
    /\ profileFetches' = Append(profileFetches, [ pc |-> "player", rows |-> << >> ])
    /\ UNCHANGED << matchPlayers, statsVars, durVars, restVars >>

\* fetchProfile between its awaits: the player of run i arrived and the query
\* for the player's rows leaves
PlayerFetched(i) ==
    /\ i \in 1..Len(profileFetches)
    /\ profileFetches[i].pc = "player"
    /\ profileFetches' = [ profileFetches EXCEPT ![i] = [ pc |-> "rows", rows |-> matchPlayers ] ]
    /\ UNCHANGED << matchPlayers, profile, statsVars, durVars, restVars >>

\* fetchProfile after its second await: the rows of run i arrived
CompleteProfile(i) ==
    /\ i \in 1..Len(profileFetches)
    /\ profileFetches[i].pc = "rows"
    /\ profile' = ProfileOfMatches(profileFetches[i].rows, MatchesOfRows(profileFetches[i].rows))
    /\ profileFetches' = [ profileFetches EXCEPT ![i].pc = "done" ]
    /\ UNCHANGED << matchPlayers, statsVars, durVars, restVars >>

\* catch: setProfile(prev => ({ ...prev, loading: false, error: message }))
FailedProfile(prev, message) == [ prev EXCEPT !.loading = FALSE, !.error = message ]

\* fetchProfile after an await: a query of run i fails with message and the
\* catch block runs
FailProfile(i, message) ==
    /\ i \in 1..Len(profileFetches)
    /\ profileFetches[i].pc \in { "player", "rows" }
    /\ profile' = FailedProfile(profile, message)
    /\ profileFetches' = [ profileFetches EXCEPT ![i].pc = "done" ]
    /\ UNCHANGED << matchPlayers, statsVars, durVars, restVars >>

----------------------------------------------------------------------------
(* useStats                                                                 *)

\* useState(...) of useStats
InitialStats ==
    [ totalHours |-> Zero, totalMatches |-> 0, playerStats |-> << >>,
      matchDurationStats |-> [ longest |-> 0, shortest |-> 0,
                               averageMinutes |-> Zero, totalMinutes |-> Zero ],
      chartData |-> [ winsOverTime |-> << >> ],
      loading |-> TRUE, error |-> "null" ]

\* setStats({ ...calculated, loading: false, error: null })
Loaded(c) ==
    [ totalHours |-> c.totalHours, totalMatches |-> c.totalMatches,
      playerStats |-> c.playerStats, matchDurationStats |-> c.matchDurationStats,
      chartData |-> c.chartData,
      loading |-> FALSE, error |-> "null" ]

Calculated(data) == Loaded(calculateStats(data))

\* calculateStats applied to a match list
calculateStatsOf(data) ==
    /\ statsInput' = data
    /\ statsResult' = calculateStats(data)
    /\ UNCHANGED << profileInput, profileResult, statsVars, profileVars, durVars, appVars >>

\* The hook runs against a configured record store; the await hands control
\* back, so runs overlap and their answers arrive in any order. A query is
\* answered with what the store holds when it is sent.

\* matches.insert: the record store inserts the match m, which has no
\* match_players rows yet
InsertMatch(m) ==
    /\ allMatches' = Append(allMatches,
                            WithId([ m EXCEPT !.match_players = << >> ], Len(allMatches) + 1))
    /\ UNCHANGED << stats, fetches, durVars, profileVars, restVars >>

\* match_players.insert: the record store inserts the row mp of match i;
\* UNIQUE(match_id, player_id) refuses a player the match lists already
InsertMatchPlayer(i, mp) ==
    /\ i \in 1..Len(allMatches)
    /\ allMatches' =
         IF \E k \in 1..Len(allMatches[i].match_players) :
                allMatches[i].match_players[k].player_id = mp.player_id
         THEN allMatches
         ELSE [ allMatches EXCEPT ![i].match_players = Append(@, mp) ]
    /\ UNCHANGED << stats, fetches, durVars, profileVars, restVars >>

\* the orders in which n matches can be given
Orders(n) == { f \in [ 1..n -> 1..n ] : \A i \in 1..n : \E k \in 1..n : f[k] = i }

\* .order('played_at', { ascending: false }): the answers the store can give,
\* matches of the same played_at in any order
OrderedByPlayedAt(store) ==
    { [ i \in 1..Len(store) |-> store[f[i]] ] :
        f \in { g \in Orders(Len(store)) :
                  \A i \in 1..(Len(store) - 1) :
                      store[g[i]].played_at >= store[g[i + 1]].played_at } }

\* fetchAndCalculateStats up to its await: the loading flag is set and the
\* query leaves; data is the answer the record store gives it
fetchAndCalculateStats(data) ==
    /\ data \in OrderedByPlayedAt(allMatches)
    /\ stats' = [ stats EXCEPT !.loading = TRUE, !.error = "null" ]
    /\ fetches' = Append(fetches, [ data |-> data, done |-> FALSE ])
    /\ UNCHANGED << allMatches, durVars, profileVars, restVars >>

\* fetchAndCalculateStats after its await: the answer of fetch i arrives
CompleteFetch(i) ==
    /\ i \in 1..Len(fetches)
    /\ ~fetches[i].done
    /\ stats' = Calculated(fetches[i].data)
    /\ fetches' = [ fetches EXCEPT ![i].done = TRUE ]
    /\ UNCHANGED << allMatches, durVars, profileVars, restVars >>

\* a catch block that puts the message over the initial state
FailedReset(prev, message) == [ InitialStats EXCEPT !.loading = FALSE, !.error = message ]

\* catch: setStats(prev => ({ ...prev, loading: false, error: message }))
Failed(prev, message) == [ prev EXCEPT !.loading = FALSE, !.error = message ]

\* fetchAndCalculateStats after its await: fetch i fails with message and the
\* catch block runs
FailFetch(i, message) ==
    /\ i \in 1..Len(fetches)
    /\ ~fetches[i].done
    /\ stats' = Failed(stats, message)
    /\ fetches' = [ fetches EXCEPT ![i].done = TRUE ]
    /\ UNCHANGED << allMatches, durVars, profileVars, restVars >>

-----------------------------------------------------------------------------
(* Record store tables: players, matches, match_players (schema.sql)         *)

UpperLetters ==
    << "A", "B", "C", "D", "E", "F", "G", "H", "I", "J", "K", "L", "M",
       "N", "O", "P", "Q", "R", "S", "T", "U", "V", "W", "X", "Y", "Z" >>

LowerLetters ==
    << "a", "b", "c", "d", "e", "f", "g", "h", "i", "j", "k", "l", "m",
       "n", "o", "p", "q", "r", "s", "t", "u", "v", "w", "x", "y", "z" >>

\* the lower-case letter of a capital letter, any other character unchanged
LowerLetter(c) ==
    IF \E k \in 1..26 : UpperLetters[k] = c
    THEN LowerLetters[CHOOSE k \in 1..26 : UpperLetters[k] = c]
    ELSE c

\* LOWER(name), the case folding of ilike

toLowerCase(t) == [ i \in 1..Len(t) |-> LowerLetter(t[i]) ]

\* String.prototype.trim
RECURSIVE trim(_)
trim(t) ==
    IF t = << >> THEN t
    ELSE IF IsSpace(t[1]) THEN trim(SubSeq(t, 2, Len(t)))
    ELSE IF IsSpace(t[Len(t)]) THEN trim(SubSeq(t, 1, Len(t) - 1))
    ELSE t

\* user_id of a player record no account is linked to
NoUser == "null"

\* a row of the players table; its id is its position in the table
PlayerRecord(name, color, user) == [ name |-> name, color |-> color, user_id |-> user ]

\* the rows that hold name, letter for letter
RowsNamed(tbl, name) == { i \in 1..Len(tbl) : tbl[i].name = name }

\* schema.sql declares name TEXT NOT NULL and a plain index on LOWER(name);
\* the calls are written for a unique name (onConflict: 'name', error 23505
\* of the insert). unique tells which of the two the deployed table is.

\* players.upsert({ name, color }, { onConflict: 'name', ignoreDuplicates:
\* false }): the table after the call. Without a unique constraint on the
\* conflict target the statement is refused (42P10) and nothing is written
UpsertPlayer(unique, tbl, name, color) ==
    IF ~unique THEN tbl
    ELSE IF RowsNamed(tbl, name) = {} THEN Append(tbl, PlayerRecord(name, color, NoUser))
    ELSE [ tbl EXCEPT ![CHOOSE i \in RowsNamed(tbl, name) : TRUE].color = color ]

\* .select().single() of the upsert: the id of the row written, 0 for the
\* data null of a refused statement
UpsertedId(unique, tbl, name) ==
    IF ~unique THEN 0
    ELSE IF RowsNamed(tbl, name) = {} THEN Len(tbl) + 1
    ELSE CHOOSE i \in RowsNamed(tbl, name) : TRUE

\* the is_winner column of a form's flag
WinnerColumn(flag) == IF flag THEN "true" ELSE "false"

\* a row of match_players; its id is its position among the rows of its match
MatchPlayerRow(pid, color, position, flag) ==
    [ player_id |-> pid, color |-> color, position |-> position,
      is_winner |-> WinnerColumn(flag) ]

\* players.update({ name }).eq('id', pid): a unique name column takes no
\* value that another row holds (23505)
RenamePlayer(unique, tbl, pid, name) ==
    IF unique /\ RowsNamed(tbl, name) \ { pid } # {} THEN tbl
    ELSE [ tbl EXCEPT ![pid].name = name ]

\* the answers to a request: done and answered, answered with an error and
\* not done, or no answer (the awaited promise rejects)
Answers == { "ok", "error", "rejected" }

-----------------------------------------------------------------------------
(* Submit page: the players step and handleSubmit                            *)

PLAYER_COLORS == << "Purple", "Red", "Blue", "Green" >>

PlayerInput(id, name, color) ==
    [ id |-> id, name |-> name, color |-> color, is_winner |-> FALSE ]

\* no handleSubmit is running
NoSubmit == [ outcome |-> "bingo", players |-> << >> ]

\* useState: no image, outcome 'bingo' and two players without a name, not
\* submitting; nextId stands for generateId, which returns a fresh id each
\* time. pc, match, i and player are the position of the running
\* handleSubmit: the request it awaits, the match it inserted, the index of
\* its loop and the player the upsert returned; sent holds the outcome and
\* the players of the render it was called in
InitialForm ==
    [ imageFile |-> FALSE,
      outcome |-> "bingo",
      players |-> << PlayerInput(1, << >>, PLAYER_COLORS[1]),
                     PlayerInput(2, << >>, PLAYER_COLORS[2]) >>,
      nextId |-> 3,
      isSubmitting |-> FALSE, error |-> "null",
      pc |-> "idle", match |-> 0, i |-> 0, player |-> 0, sent |-> NoSubmit ]

\* PLAYER_COLORS.find(c => !usedColors.includes(c.value))?.value || PLAYER_COLORS[0].value
AvailableColor(ps) ==
    LET free == { i \in 1..Len(PLAYER_COLORS) :
                    \A j \in 1..Len(ps) : ps[j].color # PLAYER_COLORS[i] }
    IN  IF free = {} THEN PLAYER_COLORS[1]
        ELSE PLAYER_COLORS[CHOOSE i \in free : \A j \in free : i <= j]

\* { ...p, ...updates }
Merge(p, updates) == [ f \in DOMAIN p |-> IF f \in DOMAIN updates THEN updates[f] ELSE p[f] ]

\* players.map(p => p.id === id ? { ...p, ...updates } : p)
UpdatedPlayers(ps, id, updates) ==
    [ i \in 1..Len(ps) |-> IF ps[i].id = id THEN Merge(ps[i], updates) ELSE ps[i] ]

\* players.map(p => p.id === id ? { ...p, is_winner: true } : p)
WithWinnerAdded(ps, id) ==
    [ i \in 1..Len(ps) |-> IF ps[i].id = id THEN [ ps[i] EXCEPT !.is_winner = TRUE ] ELSE ps[i] ]

\* players.map(p => ({ ...p, is_winner: p.id === id }))
WithWinner(ps, id) == [ i \in 1..Len(ps) |-> [ ps[i] EXCEPT !.is_winner = (ps[i].id = id) ] ]

FormFrame == UNCHANGED << edit, tableVars, durVars, statsVars, profileVars, authVars, pageVars, calcVars >>

\* onDrop: the board image is chosen; the steps that follow show the fields
onDrop ==
    /\ form' = [ form EXCEPT !.imageFile = TRUE ]
    /\ FormFrame

addPlayer ==
    /\ form' = [ form EXCEPT
                   !.players = Append(@, PlayerInput(form.nextId, << >>,
                                                     AvailableColor(form.players))),
                   !.nextId = @ + 1 ]
    /\ FormFrame

removePlayer(id) ==
    /\ form' = IF Len(form.players) > 1
               THEN [ form EXCEPT !.players = SelectSeq(@, LAMBDA p : p.id # id) ]
               ELSE form
    /\ FormFrame

updatePlayer(id, updates) ==
    /\ form' = [ form EXCEPT !.players = UpdatedPlayers(@, id, updates) ]
    /\ FormFrame

setWinner(id) ==
    /\ form' = [ form EXCEPT !.players = WithWinner(@, id) ]
    /\ FormFrame

setOutcome(v) ==
    /\ form' = [ form EXCEPT !.outcome = v ]
    /\ FormFrame

\* players.filter(p => p.name.trim())
ValidPlayers(ps) == SelectSeq(ps, LAMBDA p : trim(p.name) # << >>)

\* The page runs against a configured record store. handleSubmit hands
\* control back at every await; each request is one step, done by the store
\* when it is answered.

\* catch and finally: setError(message), setIsSubmitting(false)
SubmitFailed(f, message) ==
    [ f EXCEPT !.error = message, !.isSubmitting = FALSE,
               !.pc = "idle", !.match = 0, !.i = 0, !.player = 0, !.sent = NoSubmit ]

\* the loop over validPlayers goes on: the upsert of the next player
\* leaves, or navigate leaves the page and the form is gone
NextPlayer(f) ==
    IF f.i < Len(ValidPlayers(f.sent.players))
    THEN [ f EXCEPT !.pc = "upsert", !.i = @ + 1, !.player = 0 ]
    ELSE InitialForm

\* the Submit button of the review step, disabled while isSubmitting:
\* handleSubmit up to its first await, the upload of the image
handleSubmit ==
    /\ ~form.isSubmitting
    /\ form' = IF ~form.imageFile THEN form
               ELSE [ form EXCEPT !.isSubmitting = TRUE, !.error = "null", !.pc = "upload",
                                  !.sent = [ outcome |-> form.outcome,
                                             players |-> form.players ] ]
    /\ FormFrame

\* uploadBoardImage answered: null for an upload error, which is thrown as
\* 'Failed to upload image'; a rejected upload is thrown with its own
\* message; else boards.insert leaves
uploadBoardImage(answer, message) ==
    /\ form.pc = "upload"
    /\ form' = IF answer = "ok" THEN [ form EXCEPT !.pc = "board" ]
               ELSE IF answer = "error" THEN SubmitFailed(form, "Failed to upload image")
               ELSE SubmitFailed(form, message)
    /\ FormFrame

\* boards.insert answered: boardError is thrown, else matches.insert leaves
boardsInsert(answer, message) ==
    /\ form.pc = "board"
    /\ form' = IF answer = "ok" THEN [ form EXCEPT !.pc = "match" ]
               ELSE SubmitFailed(form, message)
    /\ FormFrame

\* matches.insert answered: matchError is thrown, else the match is stored
\* without rows and the loop starts
matchesInsert(answer, message) ==
    /\ form.pc = "match"
    /\ IF answer = "ok"
       THEN /\ matchTable' = Append(matchTable,
                                    [ outcome |-> form.sent.outcome, match_players |-> << >> ])
            /\ form' = NextPlayer([ form EXCEPT !.match = Len(matchTable) + 1, !.i = 0 ])
       ELSE /\ form' = SubmitFailed(form, message)
            /\ UNCHANGED matchTable
    /\ UNCHANGED << edit, players, nameUnique, durVars, statsVars, profileVars, authVars,
                    pageVars, calcVars >>

\* players.upsert answered: with a player, match_players.insert leaves; with
\* data null (the error is not looked at) the player is passed over
playersUpsert(answer, message) ==
    /\ form.pc = "upsert"
    /\ LET p == ValidPlayers(form.sent.players)[form.i]
           pid == UpsertedId(nameUnique, players, trim(p.name))
       IN  IF answer = "rejected"
           THEN form' = SubmitFailed(form, message) /\ UNCHANGED players
           ELSE IF answer = "error" \/ pid = 0
           THEN form' = NextPlayer(form) /\ UNCHANGED players
           ELSE /\ players' = UpsertPlayer(nameUnique, players, trim(p.name), p.color)
                /\ form' = [ form EXCEPT !.pc = "row", !.player = pid ]
    /\ UNCHANGED << edit, matchTable, nameUnique, durVars, statsVars, profileVars, authVars,
                    pageVars, calcVars >>

\* match_players.insert({ match_id, player_id, color, position, is_winner }):
\* UNIQUE(match_id, player_id) refuses a player the match lists already
InsertMatchPlayerRow(rows, pid, p, position) ==
    IF \E r \in 1..Len(rows) : rows[r].player_id = pid THEN rows
    ELSE Append(rows, MatchPlayerRow(pid, p.color, position, p.is_winner))

\* match_players.insert answered: its result is not looked at
matchPlayersInsert(answer, message) ==
    /\ form.pc = "row"
    /\ IF answer = "rejected"
       THEN form' = SubmitFailed(form, message) /\ UNCHANGED matchTable
       ELSE /\ form' = NextPlayer(form)
            /\ matchTable' =
                 IF answer = "error" THEN matchTable
                 ELSE [ matchTable EXCEPT ![form.match].match_players =
                          InsertMatchPlayerRow(@, form.player,
                                               ValidPlayers(form.sent.players)[form.i],
                                               form.i - 1) ]
    /\ UNCHANGED << edit, players, nameUnique, durVars, statsVars, profileVars, authVars,
                    pageVars, calcVars >>

-----------------------------------------------------------------------------
(* Match page: EditMatchModal                                                *)

\* no handleSave is running
NoSave == [ outcome |-> "bingo", players |-> << >> ]

\* no match page is open
NoEdit ==
    [ match |-> 0, isOpen |-> FALSE, outcome |-> "bingo", players |-> << >>,
      original |-> << >>, saving |-> FALSE, error |-> "null", pc |-> "idle", i |-> 0,
      sent |-> NoSave ]

\* useState(match.match_players.map(mp => ({ ... }))) for the match of id m;
\* original holds match.match_players[i].player.name. pc and i are the
\* position of the running handleSave and sent the outcome and the players
\* of the render it was called in
EditOf(m, mt, tbl) ==
    [ match |-> m, isOpen |-> FALSE, outcome |-> mt[m].outcome,
      players |-> [ i \in 1..Len(mt[m].match_players) |->
                      [ id |-> i, name |-> tbl[mt[m].match_players[i].player_id].name,
                        color |-> mt[m].match_players[i].color,
                        is_winner |-> Truthy(mt[m].match_players[i].is_winner),
                        player_id |-> mt[m].match_players[i].player_id ] ],
      original |-> [ i \in 1..Len(mt[m].match_players) |->
                       tbl[mt[m].match_players[i].player_id].name ],
      saving |-> FALSE, error |-> "null", pc |-> "idle", i |-> 0, sent |-> NoSave ]

EditFrame == UNCHANGED << form, tableVars, durVars, statsVars, profileVars, authVars, pageVars, calcVars >>

\* useMatch answered on the page of match m: the page renders and mounts the
\* modal, closed, with the match as its initial state
mountMatch(m) ==
    /\ edit = NoEdit
    /\ m \in 1..Len(matchTable)
    /\ edit' = EditOf(m, matchTable, players)
    /\ EditFrame

\* setEditModalOpen(true): the mounted modal shows the state it holds
openEdit ==
    /\ edit # NoEdit /\ ~edit.isOpen
    /\ edit' = [ edit EXCEPT !.isOpen = TRUE ]
    /\ EditFrame

editUpdatePlayer(id, updates) ==
    /\ edit.isOpen
    /\ edit' = [ edit EXCEPT !.players = UpdatedPlayers(@, id, updates) ]
    /\ EditFrame

editSetWinner(id) ==
    /\ edit.isOpen
    /\ edit' = [ edit EXCEPT !.players = WithWinner(@, id) ]
    /\ EditFrame

editSetOutcome(v) ==
    /\ edit.isOpen
    /\ edit' = [ edit EXCEPT !.outcome = v ]
    /\ EditFrame

\* catch and finally: setError(message), setSaving(false)
SaveFailed(e, message) ==
    [ e EXCEPT !.error = message, !.saving = FALSE, !.pc = "idle", !.i = 0,
               !.sent = NoSave ]

\* the request the loop over players sends for player i: the name when it
\* changed, else the match_players row
PlayerStep(e, i) ==
    [ e EXCEPT !.i = i,
               !.pc = IF e.original[i] # e.sent.players[i].name THEN "name" ELSE "row" ]

\* the loop over players goes on, or onSave() refetches the match, which
\* takes the page and the modal down, and onClose()
NextEdit(e) == IF e.i < Len(e.sent.players) THEN PlayerStep(e, e.i + 1) ELSE NoEdit

\* the Save button, disabled while saving: handleSave up to its first
\* await, the update of the match
handleSave ==
    /\ edit.isOpen /\ ~edit.saving
    /\ edit' = [ edit EXCEPT !.saving = TRUE, !.error = "null", !.pc = "match",
                              !.sent = [ outcome |-> edit.outcome, players |-> edit.players ] ]
    /\ EditFrame

\* matches.update answered: matchError is thrown, else the loop starts
matchesUpdate(answer, message) ==
    /\ edit.pc = "match"
    /\ IF answer = "ok"
       THEN /\ matchTable' = [ matchTable EXCEPT ![edit.match].outcome = edit.sent.outcome ]
            /\ edit' = NextEdit([ edit EXCEPT !.i = 0 ])
       ELSE /\ edit' = SaveFailed(edit, message)
            /\ UNCHANGED matchTable
    /\ UNCHANGED << form, players, nameUnique, durVars, statsVars, profileVars, authVars,
                    pageVars, calcVars >>

\* players.update({ name }) answered: its result is not looked at, the
\* update of the row leaves
playersUpdate(answer, message) ==
    /\ edit.pc = "name"
    /\ IF answer = "rejected"
       THEN edit' = SaveFailed(edit, message) /\ UNCHANGED players
       ELSE /\ edit' = [ edit EXCEPT !.pc = "row" ]
            /\ players' = IF answer = "error" THEN players
                          ELSE RenamePlayer(nameUnique, players,
                                            edit.sent.players[edit.i].player_id,
                                            edit.sent.players[edit.i].name)
    /\ UNCHANGED << form, matchTable, nameUnique, durVars, statsVars, profileVars, authVars,
                    pageVars, calcVars >>

\* match_players.update({ color, is_winner }).eq('id', match_player_id)
UpdateRow(rows, i, p) ==
    [ rows EXCEPT ![i].color = p.color, ![i].is_winner = WinnerColumn(p.is_winner) ]

\* match_players.update answered: its result is not looked at
matchPlayersUpdate(answer, message) ==
    /\ edit.pc = "row"
    /\ IF answer = "rejected"
       THEN edit' = SaveFailed(edit, message) /\ UNCHANGED matchTable
       ELSE /\ edit' = NextEdit(edit)
            /\ matchTable' =
                 IF answer = "error" THEN matchTable
                 ELSE [ matchTable EXCEPT ![edit.match].match_players =
                          UpdateRow(@, edit.i, edit.sent.players[edit.i]) ]
    /\ UNCHANGED << form, players, nameUnique, durVars, statsVars, profileVars, authVars,
                    pageVars, calcVars >>

\* onClose: setEditModalOpen(false); the modal stays mounted and keeps its
\* state. The Cancel button is disabled while saving, the close button and
\* the backdrop are not
closeEdit ==
    /\ edit.isOpen
    /\ edit' = [ edit EXCEPT !.isOpen = FALSE ]
    /\ EditFrame

-----------------------------------------------------------------------------
(* useAuth                                                                   *)

Browsers == { "b1", "b2" }

\* the account that signs in on browser b
UserOf(b) == IF b = "b1" THEN "u1" ELSE "u2"

\* no player: null
NoPlayer == [ id |-> 0, name |-> << >>, user_id |-> NoUser ]

\* the player object of row i of the players table
PlayerOf(tbl, i) == [ id |-> i, name |-> tbl[i].name, user_id |-> tbl[i].user_id ]

\* useState({ user: null, player: null, loading: true, needsSetup: false })
InitialAuth == [ user |-> "null", player |-> NoPlayer, loading |-> TRUE, needsSetup |-> FALSE ]

\* setState({ user: null, player: null, loading: false, needsSetup: false })
NotLoggedIn == [ user |-> "null", player |-> NoPlayer, loading |-> FALSE, needsSetup |-> FALSE ]

\* no setupPlayer call in flight
NoSetup == [ pc |-> "idle", name |-> << >>, existing |-> NoPlayer, user |-> "null" ]

\* a page just loaded without a session: initAuth waits for getSession, no
\* handleSession waits for fetchPlayer, no background refresh, no signOut
\* request in flight, no SIGNED_OUT event on its way, no setupPlayer call
NoTasks ==
    [ session |-> FALSE, init |-> TRUE, fetching |-> 0, refresh |-> FALSE,
      signOut |-> 0, signingOut |-> FALSE, setup |-> NoSetup ]

\* players.select('*').eq('user_id', userId).single(): the one row of the
\* user, null when there is none or more than one; a query answered with
\* an error is logged and has data null, a rejected one is caught and null
\* is returned
fetchPlayer(tbl, userId, answer) ==
    LET rows == { i \in 1..Len(tbl) : tbl[i].user_id = userId }
    IN  IF answer = "ok" /\ Cardinality(rows) = 1
        THEN PlayerOf(tbl, CHOOSE i \in rows : TRUE)
        ELSE NoPlayer

\* text ILIKE pattern from index i of the text and index j of the pattern: %
\* stands for any run of characters, _ for any one character, a backslash
\* makes the next character literal, letters match in either case
RECURSIVE ilikeFrom(_, _, _, _)
ilikeFrom(t, i, p, j) ==
    IF j > Len(p) THEN i > Len(t)
    ELSE IF p[j] = "%" THEN \E k \in i..(Len(t) + 1) : ilikeFrom(t, k, p, j + 1)
    ELSE IF p[j] = "_" THEN i <= Len(t) /\ ilikeFrom(t, i + 1, p, j + 1)
    ELSE IF p[j] = "\\"
        THEN /\ j < Len(p) /\ i <= Len(t)
             /\ LowerLetter(t[i]) = LowerLetter(p[j + 1])
             /\ ilikeFrom(t, i + 1, p, j + 2)
    ELSE /\ i <= Len(t)
         /\ LowerLetter(t[i]) = LowerLetter(p[j])
         /\ ilikeFrom(t, i + 1, p, j + 1)

\* .ilike('name', pattern): the store's interface writes % for every * of
\* the pattern, one that follows a backslash included, and the result is
\* the ILIKE pattern
ilike(t, pattern) ==
    ilikeFrom(t, 1, [ j \in 1..Len(pattern) |-> IF pattern[j] = "*" THEN "%" ELSE pattern[j] ], 1)

\* players.select('*').ilike('name', name).single(): the one row whose name
\* matches name as a pattern ignoring letter case, null when there is none or more than one
FindByNameIgnoringCase(tbl, name) ==
    LET rows == { i \in 1..Len(tbl) : ilike(tbl[i].name, name) }
    IN  IF Cardinality(rows) = 1 THEN PlayerOf(tbl, CHOOSE i \in rows : TRUE) ELSE NoPlayer

\* getCachedPlayer: the cached player, null when the entry is more than 30
\* days old
getCachedPlayer(b) == IF cacheExpired[b] THEN NoPlayer ELSE cache[b]

\* cachePlayer(player): the entry { player, cachedAt: Date.now() } is
\* stored, and removed for null
cachePlayer(b, player) ==
    /\ cache' = [ cache EXCEPT ![b] = player ]
    /\ cacheExpired' = [ cacheExpired EXCEPT ![b] = FALSE ]

\* time passes: Date.now() - cachedAt of the cached entry exceeds
\* PLAYER_CACHE_EXPIRY
expireCache(b) ==
    /\ cache[b] # NoPlayer /\ ~cacheExpired[b]
    /\ cacheExpired' = [ cacheExpired EXCEPT ![b] = TRUE ]
    /\ UNCHANGED << auth, cache, tasks, signedOut, players >>
    /\ UNCHANGED << formVars, matchTable, nameUnique, durVars, statsVars, profileVars, pageVars,
                    calcVars >>

AuthFrame ==
    UNCHANGED << formVars, matchTable, nameUnique, durVars, statsVars, profileVars, pageVars,
                 calcVars >>

\* signInWithDiscord: the browser leaves for the provider and comes back
\* with a session; the page is loaded anew
login(b) ==
    /\ ~tasks[b].session
    /\ auth' = [ auth EXCEPT ![b] = InitialAuth ]
    /\ tasks' = [ tasks EXCEPT ![b] = [ NoTasks EXCEPT !.session = TRUE ] ]
    /\ signedOut' = [ signedOut EXCEPT ![b] = FALSE ]
    /\ UNCHANGED << cache, cacheExpired, players >>
    /\ AuthFrame

\* the page is loaded anew: the hook mounts again, the calls in flight are
\* gone, localStorage and the session stay
reload(b) ==
    /\ auth' = [ auth EXCEPT ![b] = InitialAuth ]
    /\ tasks' = [ tasks EXCEPT ![b] = [ NoTasks EXCEPT !.session = tasks[b].session ] ]
    /\ signedOut' = [ signedOut EXCEPT ![b] = FALSE ]
    /\ UNCHANGED << cache, cacheExpired, players >>
    /\ AuthFrame

\* initAuth: getSession answers and handleSession(session, true) runs up to
\* its return or its await, getCachedPlayer removing an entry that is more
\* than 30 days old; on an error of getSession, answered or thrown, the
\* state is set to not logged in and the cache is left alone
initAuth(b, answer) ==
    /\ tasks[b].init
    /\ IF answer # "ok"
       THEN /\ auth' = [ auth EXCEPT ![b] = NotLoggedIn ]
            /\ tasks' = [ tasks EXCEPT ![b].init = FALSE ]
            /\ UNCHANGED << cache, cacheExpired >>
       ELSE IF ~tasks[b].session
       THEN /\ cachePlayer(b, NoPlayer)
            /\ auth' = [ auth EXCEPT ![b] = NotLoggedIn ]
            /\ tasks' = [ tasks EXCEPT ![b].init = FALSE ]
       ELSE IF getCachedPlayer(b) # NoPlayer
       THEN /\ auth' = [ auth EXCEPT ![b] = [ user |-> UserOf(b), player |-> getCachedPlayer(b),
                                              loading |-> FALSE, needsSetup |-> FALSE ] ]
            /\ tasks' = [ tasks EXCEPT ![b].init = FALSE, ![b].refresh = TRUE ]
            /\ UNCHANGED << cache, cacheExpired >>
       ELSE /\ auth' = [ auth EXCEPT ![b].user = UserOf(b), ![b].loading = TRUE ]
            /\ tasks' = [ tasks EXCEPT ![b].init = FALSE, ![b].fetching = @ + 1 ]
            /\ cachePlayer(b, getCachedPlayer(b))
    /\ UNCHANGED << signedOut, players >>
    /\ AuthFrame

\* onAuthStateChange, event SIGNED_IN: handleSession(session, false) up to
\* its await; getCachedPlayer removes an entry that is more than 30 days old
SIGNED_IN(b) ==
    /\ tasks[b].session
    /\ auth' = [ auth EXCEPT ![b].user = UserOf(b), ![b].loading = TRUE ]
    /\ tasks' = [ tasks EXCEPT ![b].fetching = @ + 1 ]
    /\ signedOut' = [ signedOut EXCEPT ![b] = FALSE ]
    /\ IF cacheExpired[b] THEN cachePlayer(b, NoPlayer) ELSE UNCHANGED << cache, cacheExpired >>
    /\ UNCHANGED players
    /\ AuthFrame

\* the state handleSession leaves after its await on fetchPlayer
SessionLoaded(user, player) ==
    [ user |-> user, player |-> player, loading |-> FALSE, needsSetup |-> player = NoPlayer ]

\* handleSession after its await: fetchPlayer answers, with null when the
\* lookup failed, and needsSetup is then true
handleSession(b, answer) ==
    /\ tasks[b].fetching > 0
    /\ LET player == fetchPlayer(players, UserOf(b), answer)
       IN  /\ IF player # NoPlayer THEN cachePlayer(b, player)
              ELSE UNCHANGED << cache, cacheExpired >>
           /\ auth' = [ auth EXCEPT ![b] = SessionLoaded(UserOf(b), player) ]
    /\ tasks' = [ tasks EXCEPT ![b].fetching = @ - 1 ]
    /\ UNCHANGED << signedOut, players >>
    /\ AuthFrame

\* fetchPlayer(session.user.id).then(...) of the initial load: the
\* background refresh answers, with null when the lookup failed
backgroundRefresh(b, answer) ==
    /\ tasks[b].refresh
    /\ LET freshPlayer == fetchPlayer(players, UserOf(b), answer)
       IN  IF freshPlayer # NoPlayer
           THEN /\ cachePlayer(b, freshPlayer)
                /\ auth' = [ auth EXCEPT ![b].player = freshPlayer ]
           ELSE UNCHANGED << auth, cache, cacheExpired >>
    /\ tasks' = [ tasks EXCEPT ![b].refresh = FALSE ]
    /\ UNCHANGED << signedOut, players >>
    /\ AuthFrame

\* logout up to its await: cachePlayer(null), and the signOut request
\* leaves
logout(b) ==
    /\ cachePlayer(b, NoPlayer)
    /\ tasks' = [ tasks EXCEPT ![b].signOut = @ + 1 ]
    /\ signedOut' = [ signedOut EXCEPT ![b] = TRUE ]
    /\ UNCHANGED << auth, players >>
    /\ AuthFrame

\* signOut answered: the session is ended and SIGNED_OUT is emitted; with an
\* error, answered or thrown, the session stays and logout throws
signOut(b, answer) ==
    /\ tasks[b].signOut > 0
    /\ tasks' = IF answer = "ok"
                THEN [ tasks EXCEPT ![b].signOut = @ - 1, ![b].session = FALSE,
                                    ![b].signingOut = TRUE ]
                ELSE [ tasks EXCEPT ![b].signOut = @ - 1 ]
    /\ UNCHANGED << auth, cache, cacheExpired, signedOut, players >>
    /\ AuthFrame

\* onAuthStateChange, event SIGNED_OUT
SIGNED_OUT(b) ==
    /\ tasks[b].signingOut
    /\ cachePlayer(b, NoPlayer)
    /\ auth' = [ auth EXCEPT ![b] = NotLoggedIn ]
    /\ tasks' = [ tasks EXCEPT ![b].signingOut = FALSE ]
    /\ signedOut' = [ signedOut EXCEPT ![b] = TRUE ]
    /\ UNCHANGED players
    /\ AuthFrame

\* onAuthStateChange, event TOKEN_REFRESHED with a session
TOKEN_REFRESHED(b) ==
    /\ tasks[b].session
    /\ auth' = [ auth EXCEPT ![b].user = UserOf(b) ]
    /\ UNCHANGED << cache, cacheExpired, tasks, signedOut, players >>
    /\ AuthFrame

\* setupPlayer up to its first await: the guards, then the lookup by name
\* leaves; a call that throws changes nothing
setupPlayer(b, displayName) ==
    /\ tasks[b].setup = NoSetup
    /\ tasks' = IF auth[b].user = "null" \/ trim(displayName) = << >> THEN tasks
                ELSE [ tasks EXCEPT ![b].setup = [ pc |-> "lookup", name |-> trim(displayName),
                                                   existing |-> NoPlayer,
                                                   user |-> auth[b].user ] ]
    /\ UNCHANGED << auth, cache, cacheExpired, signedOut, players >>
    /\ AuthFrame

\* setupPlayer after the lookup: claim the record found when it has no
\* user_id, throw when it has one, insert when none was found. The error of
\* the lookup is not looked at: an answer with an error has data null and
\* the insert is tried; a rejected lookup ends the call
setupLookup(b, answer) ==
    /\ tasks[b].setup.pc = "lookup"
    /\ LET existing == IF answer = "error" THEN NoPlayer
                       ELSE FindByNameIgnoringCase(players, tasks[b].setup.name)
       IN  tasks' = IF answer = "rejected" THEN [ tasks EXCEPT ![b].setup = NoSetup ]
                    ELSE IF existing = NoPlayer THEN [ tasks EXCEPT ![b].setup.pc = "insert" ]
                    ELSE IF existing.user_id = NoUser
                    THEN [ tasks EXCEPT ![b].setup.pc = "claim", ![b].setup.existing = existing ]
                    ELSE [ tasks EXCEPT ![b].setup = NoSetup ]
    /\ UNCHANGED << auth, cache, cacheExpired, signedOut, players >>
    /\ AuthFrame

\* players.update({ user_id }).eq('id', id): the table after the claim
Claimed(tbl, id, user) == [ tbl EXCEPT ![id].user_id = user ]

\* cachePlayer(player); setState(prev => ({ ...prev, player, needsSetup: false }))
setupDone(b, player) ==
    /\ cachePlayer(b, player)
    /\ auth' = [ auth EXCEPT ![b].player = player, ![b].needsSetup = FALSE ]
    /\ tasks' = [ tasks EXCEPT ![b].setup = NoSetup ]

\* setupPlayer after the update that claims the record answered: claimError
\* is thrown, as is a rejected update
setupClaim(b, answer) ==
    /\ tasks[b].setup.pc = "claim"
    /\ IF answer = "ok"
       THEN /\ players' = Claimed(players, tasks[b].setup.existing.id, tasks[b].setup.user)
            /\ setupDone(b, PlayerOf(players', tasks[b].setup.existing.id))
       ELSE /\ tasks' = [ tasks EXCEPT ![b].setup = NoSetup ]
            /\ UNCHANGED << auth, cache, cacheExpired, players >>
    /\ UNCHANGED signedOut
    /\ AuthFrame

\* setupPlayer after the insert answered: error 23505 when the name is
\* unique and a row holds it already; any other error and a rejected insert
\* are thrown as well; color is what getRandomColor returned
setupInsert(b, color, answer) ==
    /\ tasks[b].setup.pc = "insert"
    /\ IF answer # "ok" \/ (nameUnique /\ RowsNamed(players, tasks[b].setup.name) # {})
       THEN /\ tasks' = [ tasks EXCEPT ![b].setup = NoSetup ]
            /\ UNCHANGED << auth, cache, cacheExpired, players >>
       ELSE /\ players' = Append(players, PlayerRecord(tasks[b].setup.name, color,
                                                       tasks[b].setup.user))
            /\ setupDone(b, PlayerOf(players', Len(players')))
    /\ UNCHANGED signedOut
    /\ AuthFrame

-----------------------------------------------------------------------------
(* useMatches                                                                *)

\* the matches of the unchanging record store in the order of the query,
\* each named by its position
StoredMatches == [ i \in 1..StoreSize |-> i ]

\* .range(fetchOffset, fetchOffset + limit - 1) of the ordered matches
Range(fetchOffset, limit) ==
    SubSeq(StoredMatches, fetchOffset + 1,
           IF fetchOffset + limit < StoreSize THEN fetchOffset + limit ELSE StoreSize)

\* useState of useMatches({ limit }); rendered is the currentOffset of the
\* last render, the one the loadMore callback in use has captured; mounted
\* turns true when the effect has started the initial fetch
InitialPage ==
    [ matches |-> << >>, loading |-> TRUE, error |-> "null", hasMore |-> TRUE,
      currentOffset |-> 0, rendered |-> 0, mounted |-> FALSE ]

PageFrame == UNCHANGED << formVars, tableVars, durVars, statsVars, profileVars, authVars, calcVars >>

\* fetchMatches(fetchOffset, append) up to its await
StartPageFetch(fetchOffset, append) ==
    Append(pageFetches, [ offset |-> fetchOffset, append |-> append ])

\* useEffect: fetchMatches(offset) with the offset option 0
mountPage ==
    /\ ~page.mounted
    /\ page' = [ page EXCEPT !.mounted = TRUE, !.loading = TRUE, !.error = "null" ]
    /\ pageFetches' = StartPageFetch(0, FALSE)
    /\ PageFrame

\* loadMore: the offset is computed from the currentOffset of the last render
loadMore ==
    /\ page.mounted
    /\ page' = [ page EXCEPT !.currentOffset = page.rendered + PageLimit,
                             !.loading = TRUE, !.error = "null" ]
    /\ pageFetches' = StartPageFetch(page.rendered + PageLimit, TRUE)
    /\ PageFrame

\* refresh
refresh ==
    /\ page.mounted
    /\ page' = [ page EXCEPT !.currentOffset = 0, !.loading = TRUE, !.error = "null" ]
    /\ pageFetches' = StartPageFetch(0, FALSE)
    /\ PageFrame

\* the component renders again and loadMore captures the current offset
renderPage ==
    /\ page.rendered # page.currentOffset
    /\ page' = [ page EXCEPT !.rendered = page.currentOffset ]
    /\ UNCHANGED pageFetches
    /\ PageFrame

\* the demo matches, named apart from the matches of the store
DEMO_MATCHES == << -1, -2, -3 >>

\* catch: setError(message), setMatches(DEMO_MATCHES.slice(0, limit)),
\* setHasMore(false)
FetchFailed(pg, message) ==
    [ pg EXCEPT !.error = message,
                !.matches = SubSeq(DEMO_MATCHES, 1,
                                   IF PageLimit < Len(DEMO_MATCHES) THEN PageLimit
                                   ELSE Len(DEMO_MATCHES)),
                !.hasMore = FALSE,
                !.loading = FALSE ]

\* setMatches(prev => append ? [...prev, ...typedData] : typedData)
Fetched(prev, f) == IF f.append THEN prev \o Range(f.offset, PageLimit) ELSE Range(f.offset, PageLimit)

\* fetchMatches after its await: the answer of fetch i arrives; fetchError
\* is thrown, as is a rejected query, and the catch block runs
fetchMatches(i, answer, message) ==
    /\ i \in 1..Len(pageFetches)
    /\ page' = IF answer = "ok"
               THEN [ page EXCEPT
                        !.matches = Fetched(@, pageFetches[i]),
                        !.hasMore = Len(Range(pageFetches[i].offset, PageLimit)) = PageLimit,
                        !.loading = FALSE ]
               ELSE FetchFailed(page, message)
    /\ pageFetches' = SubSeq(pageFetches, 1, i - 1) \o SubSeq(pageFetches, i + 1, Len(pageFetches))
    /\ PageFrame

----------------------------------------------------------------------------
(* Duration round trip                                                      *)

Format ==
    /\ durPc = "input"
    /\ timeStr' = formatMinutesToTime(Num(minutes))
    /\ durPc' = "formatted"
    /\ UNCHANGED << minutes, parsed, timeInput, statsVars, profileVars, restVars >>

Parse ==
    /\ durPc = "formatted"
    /\ parsed' = parseTimeToMinutes(timeStr)
    /\ durPc' = "parsed"
    /\ UNCHANGED << minutes, timeStr, timeInput, statsVars, profileVars, restVars >>

\* parseTimeToMinutes applied to the value of timeInput
ParseValue ==
    /\ durPc = "given"
    /\ parsed' = parseTimeValue(timeInput)
    /\ durPc' = "parsed"
    /\ UNCHANGED << minutes, timeStr, timeInput, statsVars, profileVars, restVars >>

----------------------------------------------------------------------------
(* Inputs                                                                   *)

Text45m == << "4", "5", "m" >>

Text2h == << "2", "h" >>

TimeTexts == { << >>, Text45m, Text2h }

\* one player's matches: won or lost on any day, or with no flag on the first
StreakMatches ==
    { Match(d, "bingo", << >>, << MP("p1", w) >>) : d \in 1..MaxDate, w \in { "true", "false" } }
        \cup { Match(1, "bingo", << >>, << MP("p1", "null") >>) }

Lineups == { << >>, << "p1" >>, << "p2", "p1" >>, << "p1", "p2", "p3" >> }

\* matches of several players, the first listed player winning or nobody
LeaderboardMatches ==
    { Match(1, "bingo", t,
            [ i \in 1..Len(l) |-> MP(l[i], IF i = w THEN "true" ELSE "false") ]) :
        l \in Lineups, w \in 0..1, t \in TimeTexts }

\* the profile player's own matches
ProfileMatches ==
    { Match(d, "bingo", t, << MP("p1", w) >>) :
        d \in 1..MaxDate, w \in { "true", "false" }, t \in { << >>, Text45m } }

SharedLineups == { << "p1", "p2" >>, << "p3", "p1" >>, << "p1", "p2", "p3" >> }

\* matches the profile player shares with one or two opponents; one of the
\* participants won, or nobody (a draw), or both of two are flagged winners
SharedMatches ==
    { Match(1, IF w = 0 THEN "draw" ELSE "bingo", << >>,
            [ i \in 1..Len(l) |-> MP(l[i], IF i = w THEN "true" ELSE "false") ]) :
        l \in SharedLineups, w \in 0..3 }
    \cup { Match(1, "bingo", << >>, << MP("p1", "true"), MP("p2", "true") >>) }

\* the summary of a history with its win count and longest streak replaced
SummariesOf(st) ==
    { [ st EXCEPT !.wins = w, !.longestStreak = l ] :
        w \in 0..MaxSummaryWins, l \in { st.longestStreak, 3 } }

Summaries(rows) == SummariesOf(calculateProfileStats(MatchesOfRows(rows), rows))

\* the matches submitted while the stats page is open, played on any day
RefetchMatches ==
    { Match(d, "bingo", t, << MP("p1", "true"), MP("p2", "false") >>) :
        d \in 1..MaxDate, t \in { << >>, Text45m } }

\* matches of players of different and of equal names, the first listed
\* player winning or nobody
OrderMatches ==
    { Match(1, "bingo", << >>,
            [ i \in 1..Len(l) |-> MP(l[i], IF i = w THEN "true" ELSE "false") ]) :
        l \in { << "p1" >>, << "p2" >>, << "p4" >>, << "p4", "p2" >>, << "p3", "p1" >> },
        w \in 0..1 }

\* matches on any day, of one player, of two, or of the second record named
\* Bob, the first listed player winning or nobody
ChartMatches ==
    { Match(d, "bingo", << >>,
            [ i \in 1..Len(l) |-> MP(l[i], IF i = w THEN "true" ELSE "false") ]) :
        d \in 1..MaxDate,
        l \in { << "p1" >>, << "p2", "p1" >>, << "p4" >> },
        w \in 0..1 }

\* the matches of a player who climbs the win tiers: the first ones won or
\* lost on any day, the later ones won on the first day
TierMatches(n) ==
    IF n < MaxTierPrefix
    THEN { Match(d, "bingo", << >>, << MP("p1", w) >>) :
             d \in 1..MaxDate, w \in { "true", "false" } }
    ELSE { Match(1, "bingo", << >>, << MP("p1", "true") >>) }

\* the matches of a player who climbs the streak tiers, rows being the
\* history so far: won, or lost while the history holds few losses, the
\* first ones on any day and the later ones on the first day
StreakTierMatches(rows) ==
    { Match(d, "bingo", << >>, << MP("p1", w) >>) :
        d \in 1..(IF Len(rows) < MaxStreakPrefix THEN MaxDate ELSE 1),
        w \in IF Len(SelectSeq(rows, LAMBDA r : r.is_winner = "false")) < MaxStreakLosses
              THEN { "true", "false" } ELSE { "true" } }

\* a time_taken that is present and holds a zero duration
Text0m == << "0", "m" >>

\* a time_taken that is present and holds no duration at all
TextUnknown == << "?" >>

\* two texts of the same duration whose parsed values are different doubles
Text73s == << "7", "3", "s" >>

Text1m13s == << "1", "m", " ", "1", "3", "s" >>

\* matches of one participant with every kind of time_taken, and of two
\* participants with a duration
TimedMatches ==
    { Match(1, "bingo", t, << MP("p1", "false") >>) :
        t \in { << >>, Text0m, TextUnknown, Text2h, Text73s, Text1m13s } }
    \cup { Match(1, "bingo", Text45m, << MP("p1", "false"), MP("p2", "false") >>) }

\* the amounts of a component; -1 stands for a component left out
Amounts == { -1, 0, 3, MaxAmount }

\* the letters of the units, by letter case
UnitLetters ==
    { [ h |-> "h", m |-> "m", s |-> "s" ], [ h |-> "H", m |-> "M", s |-> "S" ] }

\* the white space written between a number and its unit and between components
Gaps == { << >>, << " " >>, << "\t" >> }

\* the orders of the three components
UnitOrders == { o \in [ 1..3 -> { "h", "m", "s" } ] : \A i, j \in 1..3 : i # j => o[i] # o[j] }

\* the component of amount n: <N><gap><unit>, nothing when left out
ComponentText(n, letter, gap) == IF n < 0 THEN << >> ELSE NumToText(n) \o gap \o << letter >>

\* the components c written one after the other with sep between them
RECURSIVE JoinTexts(_, _)
JoinTexts(c, sep) ==
    IF c = << >> THEN << >>
    ELSE IF Head(c) = << >> THEN JoinTexts(Tail(c), sep)
    ELSE IF JoinTexts(Tail(c), sep) = << >> THEN Head(c)
    ELSE Head(c) \o sep \o JoinTexts(Tail(c), sep)

\* a duration text written from the amounts a = [ h, m, s ]
DurationText(a, o, letters, gap, sep) ==
    JoinTexts([ i \in 1..3 |-> ComponentText(a[o[i]], letters[o[i]], gap) ], sep)

\* the values handed to parseTimeToMinutes with the amounts they spell: texts
\* of any subset of the components in any order, letter case and spacing,
\* texts that spell no component, and values that are no strings
ParseInputs ==
    { [ value |-> StringValue(DurationText(a, o, l, g, sep)), amounts |-> a ] :
        a \in [ { "h", "m", "s" } -> Amounts ], o \in UnitOrders, l \in UnitLetters,
        g \in Gaps, sep \in Gaps }
    \cup { [ value |-> StringValue(t), amounts |-> [ u \in { "h", "m", "s" } |-> -1 ] ] :
             t \in { << "?" >>, << "a", "b", "c" >>, << "4", "2" >>, << "h" >>,
                     << "1", "2", ":", "3", "0" >>, << " " >> } }
    \cup { [ value |-> [ type |-> t, text |-> << >> ],
             amounts |-> [ u \in { "h", "m", "s" } |-> -1 ] ] :
             t \in { "undefined", "null", "number" } }

Text44m == << "4", "4", "m" >>

Text1h == << "1", "h" >>

\* the profile player's timed matches: wins of 44, 45 or 60 minutes on any
\* day, wins with no or a zero duration and losses of 44 minutes
SpeedMatches ==
    { Match(d, "bingo", t, << MP("p1", "true") >>) :
        d \in 1..MaxDate, t \in { Text44m, Text45m, Text1h } }
    \cup { Match(1, "bingo", t, << MP("p1", "true") >>) : t \in { << >>, Text0m } }
    \cup { Match(1, "bingo", Text44m, << MP("p1", "false") >>) }

----------------------------------------------------------------------------
(* Specifications                                                           *)

DurIdle ==
    minutes = 0 /\ timeStr = << >> /\ parsed = Zero /\ durPc = "idle" /\ timeInput = NoInput

StatsIdle == allMatches = << >> /\ stats = InitialStats /\ fetches = << >>

ProfileIdle == matchPlayers = << >> /\ profile = InitialProfile /\ profileFetches = << >>

\* the derivations applied to the empty list
CalcIdle ==
    /\ statsInput = << >> /\ statsResult = calculateStats(<< >>)
    /\ profileInput = << >> /\ profileResult = Derived(<< >>)

FormIdle == form = InitialForm /\ edit = NoEdit

\* the tables are empty and players is as schema.sql declares it
TableIdle == matchTable = << >> /\ players = << >> /\ nameUnique = FALSE

AuthIdle ==
    /\ auth = [ b \in Browsers |-> InitialAuth ]
    /\ cache = [ b \in Browsers |-> NoPlayer ]
    /\ cacheExpired = [ b \in Browsers |-> FALSE ]
    /\ tasks = [ b \in Browsers |-> NoTasks ]
    /\ signedOut = [ b \in Browsers |-> FALSE ]

PageIdle == page = InitialPage /\ pageFetches = << >>

RestIdle == FormIdle /\ TableIdle /\ AuthIdle /\ PageIdle /\ CalcIdle

\* calculateStats applied to a growing match list
Init == DurIdle /\ StatsIdle /\ ProfileIdle /\ RestIdle

\* the pages that write the record store, over a players table with or
\* without the unique name its calls are written for
InitStore ==
    /\ DurIdle /\ StatsIdle /\ ProfileIdle
    /\ FormIdle /\ AuthIdle /\ PageIdle /\ CalcIdle
    /\ matchTable = << >> /\ players = << >> /\ nameUnique \in BOOLEAN

Next ==
    \E m \in LeaderboardMatches :
        /\ Len(statsInput) < MaxMatches
        /\ calculateStatsOf(Append(statsInput, WithId(m, Len(statsInput) + 1)))

Spec == Init /\ [][Next]_vars

\* the streaks of one player's growing history; the two matches added
\* last are played on the last day
NextStreak ==
    \E m \in StreakMatches :
        /\ Len(statsInput) < MaxHistory
        /\ Len(statsInput) >= MaxHistory - 2 => m.played_at = MaxDate
        /\ calculateStatsOf(Append(statsInput, WithId(m, Len(statsInput) + 1)))

SpecStreak == Init /\ [][NextStreak]_vars

\* format, then parse
InitDuration ==
    /\ minutes \in 0..MaxMinutes
    /\ timeStr = << >> /\ parsed = Zero /\ durPc = "input" /\ timeInput = NoInput
    /\ StatsIdle /\ ProfileIdle /\ RestIdle

NextDuration == Format \/ Parse

SpecDuration == InitDuration /\ [][NextDuration]_vars

\* the profile of a player whose history grows
NextProfile ==
    \E m \in ProfileMatches :
        /\ Len(profileInput) < MaxProfileRows
        /\ deriveProfile(<< Row(ProfilePlayer, WithId(m, Len(profileInput) + 1)) >>
                        \o profileInput)

SpecProfile == Init /\ [][NextProfile]_vars

\* the profile of a player whose matches are shared with opponents
NextHeadToHead ==
    \E m \in SharedMatches :
        /\ Len(profileInput) < MaxSharedMatches
        /\ deriveProfile(<< Row(ProfilePlayer, WithId(m, Len(profileInput) + 1)) >>
                        \o profileInput)

SpecHeadToHead == Init /\ [][NextHeadToHead]_vars

\* calculateAchievements on a history and any stats summary
NextAchievements ==
    \E m \in ProfileMatches :
        /\ Len(profileInput) < MaxSummaryRows
        /\ \E st \in Summaries(<< Row(ProfilePlayer, WithId(m, Len(profileInput) + 1)) >>
                                \o profileInput) :
              evaluateAchievements(<< Row(ProfilePlayer, WithId(m, Len(profileInput) + 1)) >>
                                   \o profileInput, st)

SpecAchievements == Init /\ [][NextAchievements]_vars

\* the rows of a submitted match, in the order they are inserted
RefetchRows == << MP("p1", "true"), MP("p2", "false") >>

\* the stats page refetching while matches are submitted, request by request
NextRefetch ==
    \/ \E m \in RefetchMatches : Len(allMatches) < MaxSubmits /\ InsertMatch(m)
    \/ \E i \in 1..Len(allMatches) :
          /\ Len(allMatches[i].match_players) < Len(RefetchRows)
          /\ InsertMatchPlayer(i, RefetchRows[Len(allMatches[i].match_players) + 1])
    \/ \E data \in OrderedByPlayedAt(allMatches) :
          Len(fetches) < MaxFetches /\ fetchAndCalculateStats(data)
    \/ \E i \in 1..Len(fetches) : CompleteFetch(i)

SpecRefetch == Init /\ [][NextRefetch]_vars

\* the match durations of a growing match list
NextMatchDurations ==
    \E m \in TimedMatches :
        /\ Len(statsInput) < MaxTimedMatches
        /\ calculateStatsOf(Append(statsInput, WithId(m, Len(statsInput) + 1)))

SpecMatchDurations == Init /\ [][NextMatchDurations]_vars

\* the leaderboard order of a growing match list
NextOrder ==
    \E m \in OrderMatches :
        /\ Len(statsInput) < MaxOrderMatches
        /\ calculateStatsOf(Append(statsInput, WithId(m, Len(statsInput) + 1)))

SpecOrder == Init /\ [][NextOrder]_vars

\* the chart series of a growing match list
NextChart ==
    \E m \in ChartMatches :
        /\ Len(statsInput) < MaxChartMatches
        /\ calculateStatsOf(Append(statsInput, WithId(m, Len(statsInput) + 1)))

SpecChart == Init /\ [][NextChart]_vars

\* the profile of a player who climbs the win tiers
NextWinTiers ==
    \E m \in TierMatches(Len(profileInput)) :
        /\ Len(profileInput) < MaxTierRows
        /\ deriveProfile(<< Row(ProfilePlayer, WithId(m, Len(profileInput) + 1)) >>
                        \o profileInput)

SpecWinTiers == Init /\ [][NextWinTiers]_vars

\* the profile of a player who climbs the streak tiers
NextStreakTiers ==
    \E m \in StreakTierMatches(profileInput) :
        /\ Len(profileInput) < MaxStreakRows
        /\ deriveProfile(<< Row(ProfilePlayer, WithId(m, Len(profileInput) + 1)) >>
                        \o profileInput)

SpecStreakTiers == Init /\ [][NextStreakTiers]_vars

\* the profile of a player who wins timed matches
NextSpeed ==
    \E m \in SpeedMatches :
        /\ Len(profileInput) < MaxSpeedRows
        /\ deriveProfile(<< Row(ProfilePlayer, WithId(m, Len(profileInput) + 1)) >>
                        \o profileInput)

SpecSpeed == Init /\ [][NextSpeed]_vars

\* parseTimeToMinutes applied to a given value
InitParse ==
    /\ timeInput \in { i.value : i \in ParseInputs }
    /\ minutes = 0 /\ timeStr = << >> /\ parsed = Zero /\ durPc = "given"
    /\ StatsIdle /\ ProfileIdle /\ RestIdle

NextParse == ParseValue

SpecParse == InitParse /\ [][NextParse]_vars

----------------------------------------------------------------------------
\* the messages of the errors a query of the record store fails with
FetchErrors == { "Failed to fetch", "JWT expired" }

\* the matches and the rows inserted while queries fail
FailSubmits == { m \in RefetchMatches : m.time_taken = << >> }

FailShared ==
    { m \in SharedMatches :
        /\ Len(m.match_players) = 2
        /\ m.match_players[1].player_id = ProfilePlayer
        /\ m.match_players[2].is_winner = "false" }

\* the rows of a match that are, and that are not, the profile player's
OwnRows(m) == SelectSeq(m.match_players, LAMBDA mp : mp.player_id = ProfilePlayer)

OtherRows(m) == SelectSeq(m.match_players, LAMBDA mp : mp.player_id # ProfilePlayer)

\* useStats is mounted by the stats page (Stats.tsx) and usePlayerProfile by
\* the gallery (Gallery.tsx): one of the two hooks runs in a page session
StatsPageOpen == matchPlayers = << >> /\ profileFetches = << >>

ProfilePageOpen == allMatches = << >> /\ fetches = << >>

\* the stats page or the profile page while queries of the record store fail
NextFailure ==
    \/ \E m \in FailSubmits :
          StatsPageOpen /\ Len(allMatches) < MaxSubmits /\ InsertMatch(m)
    \/ \E data \in OrderedByPlayedAt(allMatches) :
          StatsPageOpen /\ Len(fetches) < MaxFetches /\ fetchAndCalculateStats(data)
    \/ \E i \in 1..Len(fetches) : StatsPageOpen /\ CompleteFetch(i)
    \/ \E i \in 1..Len(fetches), e \in FetchErrors : StatsPageOpen /\ FailFetch(i, e)
    \/ \E m \in FailShared :
          /\ ProfilePageOpen
          /\ Len(matchPlayers) < MaxFailRows
          /\ InsertOwnRow([ m EXCEPT !.match_players = OwnRows(m) ])
    \/ \E m \in FailShared, i \in 1..Len(matchPlayers) :
          /\ ProfilePageOpen
          /\ Len(matchPlayers[i].match.match_players) < 2
          /\ InsertOpponentRow(i, OtherRows(m)[1])
    \/ ProfilePageOpen /\ Len(profileFetches) < MaxFetches /\ fetchProfile
    \/ \E i \in 1..Len(profileFetches) : PlayerFetched(i)
    \/ \E i \in 1..Len(profileFetches) : CompleteProfile(i)
    \/ \E i \in 1..Len(profileFetches), e \in FetchErrors : FailProfile(i, e)

SpecFailure == Init /\ [][NextFailure]_vars

\* the names typed into the forms: none and two names
FormNames == { << >>, << "B", "o", "b" >>, << "A", "l" >> }

\* the outcomes chosen in the forms
FormOutcomes == { "bingo", "draw" }

\* the name typed into the edit modal
EditNames == { << "A", "l" >> }

\* the colors picked in the forms
FormColors == { PLAYER_COLORS[2] }

FormIds == { form.players[i].id : i \in 1..Len(form.players) }

EditIds == { edit.players[i].id : i \in 1..Len(edit.players) }

\* the message of a request that fails while a form is written
WriteErrors == { "Failed to fetch" }

\* the answers to the requests of a run whose requests are all done
Done == { "ok" }

\* the Submit form is filled in: the image was dropped, no submission was
\* tried and no match is stored yet
FormOpen ==
    matchTable = << >> /\ form.imageFile /\ ~form.isSubmitting /\ form.error = "null"

\* the modal is filled in: it is open and no save was tried
EditOpen == edit.isOpen /\ ~edit.saving /\ edit.error = "null"

\* the Submit form, submitted request by request, and the edit modal of the
\* stored match, saved request by request
NextForm ==
    \/ matchTable = << >> /\ ~form.imageFile /\ onDrop
    \/ FormOpen /\ Len(form.players) < MaxFormPlayers /\ form.nextId <= MaxFormIds /\ addPlayer
    \/ \E id \in FormIds : FormOpen /\ removePlayer(id)
    \/ \E id \in FormIds, n \in FormNames : FormOpen /\ updatePlayer(id, [ name |-> n ])
    \/ \E id \in FormIds, c \in FormColors : FormOpen /\ updatePlayer(id, [ color |-> c ])
    \/ \E id \in FormIds : FormOpen /\ setWinner(id)
    \/ \E v \in FormOutcomes : FormOpen /\ setOutcome(v)
    \/ matchTable = << >> /\ form.imageFile /\ handleSubmit
    \/ \E a \in Answers, e \in WriteErrors : uploadBoardImage(a, e)
    \/ \E a \in Answers, e \in WriteErrors : boardsInsert(a, e)
    \/ \E a \in Answers, e \in WriteErrors : matchesInsert(a, e)
    \/ \E a \in Answers, e \in WriteErrors : playersUpsert(a, e)
    \/ \E a \in Answers, e \in WriteErrors : matchPlayersInsert(a, e)
    \/ \E m \in 1..Len(matchTable) : form.pc = "idle" /\ mountMatch(m)
    \/ openEdit
    \/ \E id \in EditIds, n \in EditNames : EditOpen /\ editUpdatePlayer(id, [ name |-> n ])
    \/ \E id \in EditIds, c \in FormColors : EditOpen /\ editUpdatePlayer(id, [ color |-> c ])
    \/ \E id \in EditIds : EditOpen /\ editSetWinner(id)
    \/ \E v \in FormOutcomes : EditOpen /\ editSetOutcome(v)
    \/ handleSave
    \/ \E a \in Answers, e \in WriteErrors : matchesUpdate(a, e)
    \/ \E a \in Answers, e \in WriteErrors : playersUpdate(a, e)
    \/ \E a \in Answers, e \in WriteErrors : matchPlayersUpdate(a, e)
    \/ closeEdit

SpecForm == InitStore /\ [][NextForm]_vars

\* the display names typed on the Submit page and in the profile setup: one
\* name in two letter cases
DisplayNames == { << "B", "o", "b" >>, << "b", "o", "b" >> }

\* the colors getRandomColor returns
RandomColors == { PLAYER_COLORS[1], PLAYER_COLORS[2] }

\* two accounts set up their profiles while matches are submitted
NextSetup ==
    \/ Len(matchTable) < MaxSubmissions /\ ~form.imageFile /\ onDrop
    \/ \E n \in DisplayNames :
          /\ Len(matchTable) < MaxSubmissions /\ form.imageFile /\ ~form.isSubmitting
          /\ updatePlayer(1, [ name |-> n ])
    \/ Len(matchTable) < MaxSubmissions /\ form.imageFile /\ handleSubmit
    \/ \E a \in Done, e \in WriteErrors : uploadBoardImage(a, e)
    \/ \E a \in Done, e \in WriteErrors : boardsInsert(a, e)
    \/ \E a \in Done, e \in WriteErrors : matchesInsert(a, e)
    \/ \E a \in Done, e \in WriteErrors : playersUpsert(a, e)
    \/ \E a \in Done, e \in WriteErrors : matchPlayersInsert(a, e)
    \/ \E b \in Browsers : login(b)
    \/ \E b \in Browsers, a \in Answers : initAuth(b, a)
    \/ \E b \in Browsers, a \in Answers : handleSession(b, a)
    \/ \E b \in Browsers, n \in DisplayNames : auth[b].needsSetup /\ setupPlayer(b, n)
    \/ \E b \in Browsers, a \in Answers : setupLookup(b, a)
    \/ \E b \in Browsers, a \in Answers : setupClaim(b, a)
    \/ \E b \in Browsers, c \in RandomColors, a \in Answers : setupInsert(b, c, a)

SpecSetup == InitStore /\ [][NextSetup]_vars

\* the browser whose session is followed
SessionBrowsers == { "b1" }

\* one browser signs in, sets up its profile, reloads the page and signs
\* out while its calls are in flight and matches are submitted
NextSession ==
    \/ Len(matchTable) < MaxSubmissions /\ ~form.imageFile /\ onDrop
    \/ \E n \in DisplayNames :
          /\ Len(matchTable) < MaxSubmissions /\ form.imageFile /\ ~form.isSubmitting
          /\ updatePlayer(1, [ name |-> n ])
    \/ Len(matchTable) < MaxSubmissions /\ form.imageFile /\ handleSubmit
    \/ \E a \in Done, e \in WriteErrors : uploadBoardImage(a, e)
    \/ \E a \in Done, e \in WriteErrors : boardsInsert(a, e)
    \/ \E a \in Done, e \in WriteErrors : matchesInsert(a, e)
    \/ \E a \in Done, e \in WriteErrors : playersUpsert(a, e)
    \/ \E a \in Done, e \in WriteErrors : matchPlayersInsert(a, e)
    \/ \E b \in SessionBrowsers : login(b)
    \/ \E b \in SessionBrowsers : ~tasks[b].init /\ reload(b)
    \/ \E b \in SessionBrowsers, a \in Answers : initAuth(b, a)
    \/ \E b \in SessionBrowsers : tasks[b].fetching < MaxSessionFetches /\ SIGNED_IN(b)
    \/ \E b \in SessionBrowsers, a \in Answers : handleSession(b, a)
    \/ \E b \in SessionBrowsers, a \in Answers : backgroundRefresh(b, a)
    \/ \E b \in SessionBrowsers :
          /\ auth[b].user # "null" /\ tasks[b].session /\ tasks[b].signOut < MaxSignOuts
          /\ logout(b)
    \/ \E b \in SessionBrowsers, a \in Answers : signOut(b, a)
    \/ \E b \in SessionBrowsers : SIGNED_OUT(b)
    \/ \E b \in SessionBrowsers : TOKEN_REFRESHED(b)
    \/ \E b \in SessionBrowsers : expireCache(b)
    \/ \E b \in SessionBrowsers, n \in DisplayNames :
          /\ Len(players) < MaxSessionPlayers /\ auth[b].needsSetup
          /\ setupPlayer(b, n)
    \/ \E b \in SessionBrowsers, a \in Answers : setupLookup(b, a)
    \/ \E b \in SessionBrowsers, a \in Answers : setupClaim(b, a)
    \/ \E b \in SessionBrowsers, c \in RandomColors, a \in Answers : setupInsert(b, c, a)

SpecSession == InitStore /\ [][NextSession]_vars

\* the matches of a player who meets the same opponent again and again: the
\* first ones won by either of the two, the later ones by the opponent
RivalMatches(n) ==
    { Match(1, "bingo", << >>, << MP("p1", w), MP("p2", IF w = "true" THEN "false" ELSE "true") >>) :
        w \in IF n < MaxRivalPrefix THEN { "true", "false" } ELSE { "false" } }

\* the profile of a player who meets the same opponent again and again
NextRivalry ==
    \E m \in RivalMatches(Len(profileInput)) :
        /\ Len(profileInput) < MaxRivalRows
        /\ deriveProfile(<< Row(ProfilePlayer, WithId(m, Len(profileInput) + 1)) >>
                        \o profileInput)

SpecRivalry == Init /\ [][NextRivalry]_vars

\* match_players.select(...).eq('player_id', pid).order('created_at',
\* { ascending: false }): the rows of player pid in the store's matches,
\* the row created last first; created lists the ids of the player's
\* matches in the order their rows were created
PlayerRows(pid, matches, created) ==
    [ i \in 1..Len(created) |->
        Row(pid, CHOOSE m \in { matches[k] : k \in 1..Len(matches) } :
                     m.id = created[Len(created) + 1 - i]) ]

\* the order in which the rows handed to the profile were created
CreatedOf(rows) == [ i \in 1..Len(rows) |-> rows[Len(rows) + 1 - i].match.id ]

\* the row of match id is created before or after any of the rows of
\* created: a submission awaits between its match and each of its rows, so
\* the rows of two submissions are created in any order
CreatedWith(created, id) ==
    { SubSeq(created, 1, k) \o << id >> \o SubSeq(created, k + 1, Len(created)) :
        k \in 0..Len(created) }

\* the two derivations over the same growing match list: calculateStats of
\* useStats on the list with a match of the profile player added, then the
\* profile's derivation on the player's rows of that list
NextAgree ==
    \/ \E m \in ProfileMatches :
          /\ Len(statsInput) < MaxAgreeMatches
          /\ Len(profileInput) = Len(statsInput)
          /\ calculateStatsOf(Append(statsInput, WithId(m, Len(statsInput) + 1)))
    \/ /\ Len(profileInput) < Len(statsInput)
       /\ \E created \in CreatedWith(CreatedOf(profileInput), Len(statsInput)) :
             deriveProfile(PlayerRows(ProfilePlayer, statsInput, created))

SpecAgree == Init /\ [][NextAgree]_vars

\* the gallery page: the initial load, loadMore and refresh calls with the
\* answers arriving in any order
NextPage ==
    \/ mountPage
    \/ /\ Len(pageFetches) < MaxPageFetches
       /\ page.rendered < StoreSize /\ Len(page.matches) <= StoreSize
       /\ loadMore
    \/ Len(pageFetches) < MaxPageFetches /\ Len(page.matches) > PageLimit /\ refresh
    \/ renderPage
    \/ \E i \in 1..Len(pageFetches), a \in Answers, e \in FetchErrors : fetchMatches(i, a, e)

SpecPage == Init /\ [][NextPage]_vars

-----------------------------------------------------------------------------
(* Claims                                                                   *)

\* the row of player pid in the leaderboard
RowsOf(pid) ==
    { i \in 1..Len(statsResult.playerStats) : statsResult.playerStats[i].playerId = pid }

\* is_winner flags of pid's matches in played_at order (equal days in the
\* order the sort leaves them)
WinsInOrder(pid) ==
    LET h == PlayerHistory(statsInput, pid) IN [ i \in 1..Len(h) |-> h[i].isWin ]

\* the lengths k such that the last k entries of w are all wins
TrailingRuns(w) ==
    { k \in 0..Len(w) : \A i \in (Len(w) - k + 1)..Len(w) : w[i] }

\* the lengths of the runs of consecutive wins in w (0 included)
RunLengths(w) ==
    { 0 } \cup { n \in 1..Len(w) : \E i \in 1..(Len(w) - n + 1) :
                                      \A k \in i..(i + n - 1) : w[k] }

SetMax(S) == CHOOSE x \in S : \A y \in S : y <= x

\* C1: every leaderboard row's currentStreak is the length of the trailing
\* run of wins of that player's matches in played_at order (0 when the most
\* recent match is not a win).
C1_CurrentStreakIsTrailingRun ==
    \A i \in 1..Len(statsResult.playerStats) :
        statsResult.playerStats[i].currentStreak
            = SetMax(TrailingRuns(WinsInOrder(statsResult.playerStats[i].playerId)))

\* C8: every leaderboard row's longestStreak is the longest run of
\* consecutive wins (is_winner exactly true) of that player's matches in
\* played_at order, 0 without a win.
C8_LongestStreakIsMaxRun ==
    \A i \in 1..Len(statsResult.playerStats) :
        statsResult.playerStats[i].longestStreak
            = SetMax(RunLengths(WinsInOrder(statsResult.playerStats[i].playerId)))

\* win, win, win, loss, win, win on six different inputs gives longestStreak 3
C8_Witness ==
    /\ WinsInOrder("p1") = << TRUE, TRUE, TRUE, FALSE, TRUE, TRUE >>
    /\ \E i \in 1..Len(statsInput) : statsInput[i].match_players[1].is_winner = "null"
    /\ Len(statsResult.playerStats) = 1
    /\ statsResult.playerStats[1].longestStreak = 3

\* C9: in every leaderboard row longestStreak >= currentStreak.
C9_LongestAtLeastCurrent ==
    \A i \in 1..Len(statsResult.playerStats) :
        statsResult.playerStats[i].longestStreak >= statsResult.playerStats[i].currentStreak

\* a history that ends on a win and has a longer run earlier
C9_Witness ==
    /\ Len(statsResult.playerStats) = 1
    /\ statsResult.playerStats[1].currentStreak >= 1
    /\ statsResult.playerStats[1].longestStreak > statsResult.playerStats[1].currentStreak

\* the matches of statsInput in which pid takes part
MatchesOf(pid) ==
    { i \in 1..Len(statsInput) :
        \E k \in 1..Len(statsInput[i].match_players) :
            statsInput[i].match_players[k].player_id = pid }

\* those of them with a positive parsed duration
TimedMatchesOf(pid) ==
    { i \in MatchesOf(pid) :
        Less(Zero, parseTimeToMinutes(statsInput[i].time_taken)) }

\* C4: every leaderboard row's avgMinutes is the player's total minutes
\* divided by the number of the player's matches with a positive parsed
\* duration, and 0 when there is none.
C4_AvgOverTimedMatches ==
    \A i \in 1..Len(statsResult.playerStats) :
        LET row == statsResult.playerStats[i]
            n == Cardinality(TimedMatchesOf(row.playerId))
        IN  row.avgMinutes = IF n = 0 THEN Zero ELSE Div(row.totalMinutes, n)

\* C10: playerStats holds exactly one row per participating player and no
\* other row, and the row's matches field is the number of input matches the
\* player takes part in.
C10_OneRowPerPlayer ==
    /\ \A pid \in PlayerIds :
          Cardinality(RowsOf(pid)) = IF MatchesOf(pid) = {} THEN 0 ELSE 1
    /\ \A i \in 1..Len(statsResult.playerStats) :
          /\ statsResult.playerStats[i].playerId \in PlayerIds
          /\ statsResult.playerStats[i].matches
                = Cardinality(MatchesOf(statsResult.playerStats[i].playerId))

\* three matches, one of them without participants: p1 in two, p3 in one
C10_Witness ==
    /\ Len(statsInput) = 3
    /\ \E i \in 1..3 : statsInput[i].match_players = << >>
    /\ Len(statsResult.playerStats) = 3
    /\ \E i \in 1..3 : /\ statsResult.playerStats[i].playerId = "p1"
                       /\ statsResult.playerStats[i].matches = 2
    /\ \E i \in 1..3 : /\ statsResult.playerStats[i].playerId = "p3"
                       /\ statsResult.playerStats[i].matches = 1

\* C6 as stated: parseTimeToMinutes(formatMinutesToTime(m)) = m for every
\* integer m >= 0, 0 included.
C6_RoundTripFromZero ==
    durPc = "parsed" => parsed = Num(minutes)

\* C6: parseTimeToMinutes(formatMinutesToTime(m)) = m for every integer
\* m >= 1; 0 is rendered as the sentinel "< 1m", which parses to 1.
C6_RoundTripFromOne ==
    /\ (durPc = "parsed" /\ minutes >= 1) => parsed = Num(minutes)
    /\ (durPc = "parsed" /\ minutes = 0) => parsed = Num(1)

\* 125 is rendered "2h 5m" and parsed back
C6_Witness ==
    /\ durPc = "parsed"
    /\ minutes = 125
    /\ timeStr = << "2", "h", " ", "5", "m" >>
    /\ parsed = Num(125)

\* the ids of the achievements the profile shows
UnlockedIds(p) == { p.achievements[i].achievement : i \in 1..Len(p.achievements) }

\* C2: as matches are added to the player's history (any played_at, any win
\* flag), the set of unlocked achievement ids only grows.
C2_AchievementsNeverRevoked ==
    [][UnlockedIds(profileResult) \subseteq UnlockedIds(profileResult')]_vars

\* C3: once every fetch that was started has completed, and at least two
\* were started, the displayed aggregates are those of the fetch started last.
C3_LastStartedFetchWins ==
    (Len(fetches) >= 2 /\ \A i \in 1..Len(fetches) : fetches[i].done)
        => stats = Calculated(fetches[Len(fetches)].data)

\* the number of matches of the profile in which opponent id takes part
SharedCount(id) ==
    Cardinality({ i \in 1..Len(profileResult.matches) :
        \E k \in 1..Len(profileResult.matches[i].match_players) :
            profileResult.matches[i].match_players[k].player_id = id })

\* C5: the head-to-head list is in descending order of the number of matches
\* shared with each opponent, matches that neither won included.
C5_SortedBySharedMatches ==
    \A i \in 1..Len(profileResult.headToHead) : \A j \in 1..Len(profileResult.headToHead) :
        i < j => SharedCount(profileResult.headToHead[i].opponent)
                    >= SharedCount(profileResult.headToHead[j].opponent)

\* C7: no entry returned by calculateAchievements has a blank unlockedAt,
\* whatever the history and the stats summary handed to it.
C7_NoBlankUnlockDate ==
    \A i \in 1..Len(profileResult.achievements) : profileResult.achievements[i].unlockedAt # Blank

\* the parsed duration of the i-th match of statsInput
DurationAt(i) == parseTimeToMinutes(statsInput[i].time_taken)

\* the matches of statsInput with a positive parsed duration
Timed == { i \in 1..Len(statsInput) : Less(Zero, DurationAt(i)) }

\* the first of the matches in S, in input order
First(S) == CHOOSE i \in S : \A j \in S : i <= j

\* C11: matchDurationStats.longest is the first match in input order whose
\* parsed duration is the maximum among the matches with a positive parsed
\* duration, shortest the first whose duration is the minimum among them, and
\* both are null exactly when no match has a positive parsed duration.
C11_ExtremesKeepFirst ==
    IF Timed = {}
    THEN /\ statsResult.matchDurationStats.longest = 0
         /\ statsResult.matchDurationStats.shortest = 0
    ELSE /\ statsResult.matchDurationStats.longest
                = statsInput[First({ i \in Timed : \A j \in Timed :
                                        ~Less(DurationAt(i), DurationAt(j)) })].id
         /\ statsResult.matchDurationStats.shortest
                = statsInput[First({ i \in Timed : \A j \in Timed :
                                        ~Less(DurationAt(j), DurationAt(i)) })].id

\* 73s, 1m 13s, 73s, 1m 13s: 1 + 13 / 60 is the double above 73 / 60, so the
\* longest is the second match and the shortest the first
C11_Witness ==
    /\ Len(statsInput) = 4
    /\ [ i \in 1..4 |-> statsInput[i].time_taken ]
          = << Text73s, Text1m13s, Text73s, Text1m13s >>
    /\ [ i \in 1..4 |-> statsInput[i].id ] = << 1, 2, 3, 4 >>
    /\ statsResult.matchDurationStats.longest = 2
    /\ statsResult.matchDurationStats.shortest = 1

\* the sum of the parsed durations of the first i matches of statsInput
RECURSIVE DurationSum(_)
DurationSum(i) == IF i = 0 THEN Zero ELSE Add(DurationSum(i - 1), DurationAt(i))

\* C12: the global averageMinutes is the sum of the parsed durations of the
\* matches, each match counted once, divided by the number of matches with a
\* positive parsed duration, and 0 when there is none; a match whose text is
\* missing or holds no duration adds to neither.
C12_GlobalAverage ==
    /\ statsResult.matchDurationStats.totalMinutes = DurationSum(Len(statsInput))
    /\ statsResult.matchDurationStats.averageMinutes
          = IF Timed = {} THEN Zero
            ELSE Div(DurationSum(Len(statsInput)), Cardinality(Timed))

\* a 45m match of two participants, a 2h match, a match of 0m and one without
\* time_taken: the average is 165 / 2
C12_Witness ==
    /\ Len(statsInput) = 4
    /\ \E i \in 1..4 : /\ statsInput[i].time_taken = Text45m
                       /\ Len(statsInput[i].match_players) = 2
    /\ \E i \in 1..4 : statsInput[i].time_taken = Text2h
    /\ \E i \in 1..4 : statsInput[i].time_taken = Text0m
    /\ \E i \in 1..4 : statsInput[i].time_taken = << >>
    /\ statsResult.matchDurationStats.averageMinutes = Div(Num(165), 2)

\* row a stands strictly before row b: more wins, or as many wins and more
\* matches, or as many of both and the name strictly before
StrictlyBefore(a, b) ==
    \/ a.wins > b.wins
    \/ a.wins = b.wins /\ a.matches > b.matches
    \/ a.wins = b.wins /\ a.matches = b.matches
            /\ localeCompare(a.playerName, b.playerName) < 0

\* the players of the rows, in the order of the rows
RowOrder(rows) == [ i \in 1..Len(rows) |-> rows[i].playerId ]

\* C13: the leaderboard is ordered by a total order with no ties: any row
\* before another has more wins, or as many wins and more matches, or as
\* many of both and a name strictly before; and the order of the rows is the
\* same for every order in which the same matches are given.
C13_LeaderboardTotalOrder ==
    /\ \A i \in 1..Len(statsResult.playerStats) : \A j \in 1..Len(statsResult.playerStats) :
          i < j => StrictlyBefore(statsResult.playerStats[i], statsResult.playerStats[j])
    /\ \A f \in Orders(Len(statsInput)) :
          RowOrder(calculateStats([ i \in 1..Len(statsInput) |-> statsInput[f[i]] ]).playerStats)
              = RowOrder(statsResult.playerStats)

\* the match_players rows of statsInput, as << match, row >> index pairs
AllRows ==
    { << i, k >> \in (1..Len(statsInput)) \X (1..4) : k <= Len(statsInput[i].match_players) }

\* the rows of the player pid in matches dated d or earlier
RowsUpTo(pid, d) ==
    { r \in AllRows : /\ statsInput[r[1]].played_at <= d
                      /\ statsInput[r[1]].match_players[r[2]].player_id = pid }

\* the wins among them
WinsUpTo(pid, d) ==
    { r \in RowsUpTo(pid, d) : statsInput[r[1]].match_players[r[2]].is_winner = "true" }

\* C14: winsOverTime holds exactly one data point per distinct date of the
\* input, in ascending date order, and the value of a player in the point of
\* date d is the number of that player's wins in all matches dated d or
\* earlier. The value of a player is the one the point holds under the
\* player's name; the players are those met in a match dated d or earlier.
C14_CumulativeWinsPerDate ==
    LET points == statsResult.chartData.winsOverTime
    IN  /\ { points[i].date : i \in 1..Len(points) }
              = { statsInput[i].played_at : i \in 1..Len(statsInput) }
        /\ \A i \in 1..Len(points) : \A j \in 1..Len(points) :
              i < j => points[i].date < points[j].date
        /\ \A i \in 1..Len(points) :
              \A pid \in { id \in PlayerIds : RowsUpTo(id, points[i].date) # {} } :
                  /\ PlayerName(pid) \in DOMAIN points[i].wins
                  /\ points[i].wins[PlayerName(pid)]
                        = Cardinality(WinsUpTo(pid, points[i].date))

\* the rows of the profile player that are wins
WinRows == { i \in 1..Len(profileInput) : profileInput[i].is_winner = "true" }

\* the played_at of the n-th win in played_at order: fewer than n wins are
\* dated before it and at least n are dated on it or before
NthWinDay(n) ==
    CHOOSE d \in { profileInput[i].match.played_at : i \in WinRows } :
        /\ Cardinality({ i \in WinRows : profileInput[i].match.played_at < d }) < n
        /\ Cardinality({ i \in WinRows : profileInput[i].match.played_at <= d }) >= n

\* the entries of the profile's achievements with the id
EntriesOf(id) ==
    { i \in 1..Len(profileResult.achievements) : profileResult.achievements[i].achievement = id }

\* the achievement id is returned exactly when the player has n wins or
\* more, once, dated by the n-th win
WinTier(id, n) ==
    IF Cardinality(WinRows) >= n
    THEN /\ Cardinality(EntriesOf(id)) = 1
         /\ \A i \in EntriesOf(id) : profileResult.achievements[i].unlockedAt = NthWinDay(n)
    ELSE EntriesOf(id) = {}

\* C15: first-blood, veteran, champion and legend are returned exactly when
\* the player has at least 1, 10, 25 and 50 wins, each dated by the played_at
\* of the player's N-th win in played_at order; exactly 10 wins give veteran
\* and not champion.
C15_WinTiers ==
    /\ WinTier("first-blood", 1)
    /\ WinTier("veteran", 10)
    /\ WinTier("champion", 25)
    /\ WinTier("legend", 50)

\* exactly 10 wins, the first fetched one lost and the second won on day 2:
\* veteran is dated day 2, first-blood day 1, and champion is not returned
C15_Witness ==
    /\ Len(profileInput) = 11
    /\ Cardinality(WinRows) = 10
    /\ profileInput[11].is_winner = "false"
    /\ profileInput[10].match.played_at = 2 /\ profileInput[10].is_winner = "true"
    /\ \E i \in EntriesOf("veteran") : profileResult.achievements[i].unlockedAt = 2
    /\ \E i \in EntriesOf("first-blood") : profileResult.achievements[i].unlockedAt = 1
    /\ EntriesOf("champion") = {}

\* row j stands before row i in played_at order, rows of one day in the order
\* they were fetched
Earlier(j, i) ==
    \/ profileInput[j].match.played_at < profileInput[i].match.played_at
    \/ profileInput[j].match.played_at = profileInput[i].match.played_at /\ j < i

\* the row at place r of the played_at order
Chrono(r) ==
    profileInput[CHOOSE i \in 1..Len(profileInput) :
                    Cardinality({ j \in 1..Len(profileInput) : Earlier(j, i) }) = r - 1]

\* the places at which a run of consecutive wins reaches the length n
ReachedAt(n) ==
    { r \in n..Len(profileInput) :
        /\ \A k \in (r - n + 1)..r : Chrono(k).is_winner = "true"
        /\ (r - n >= 1 => Chrono(r - n).is_winner # "true") }

\* the achievement id is returned exactly when a run of n wins exists, once,
\* dated by the match at which a run first reached n
StreakTier(id, n) ==
    IF ReachedAt(n) # {}
    THEN /\ Cardinality(EntriesOf(id)) = 1
         /\ \A i \in EntriesOf(id) :
               profileResult.achievements[i].unlockedAt = Chrono(First(ReachedAt(n))).match.played_at
    ELSE EntriesOf(id) = {}

\* C16: hot-streak, unstoppable and elden-lord are returned exactly when the
\* player's longest run of consecutive wins is at least 3, 5 and 10, each
\* dated by the played_at of the match at which a run of consecutive wins
\* first reached that length in played_at order.
C16_StreakTiers ==
    /\ StreakTier("hot-streak", 3)
    /\ StreakTier("unstoppable", 5)
    /\ StreakTier("elden-lord", 10)

\* ten wins, the one fetched first dated day 2, and a loss fetched last and
\* dated day 1: the run reaches 3 and 5 on day 1 and 10 on day 2
C16_Witness ==
    /\ Len(profileInput) = 11
    /\ profileInput[1].is_winner = "false"
    /\ profileInput[1].match.played_at = 1
    /\ \E i \in EntriesOf("hot-streak") : profileResult.achievements[i].unlockedAt = 1
    /\ \E i \in EntriesOf("unstoppable") : profileResult.achievements[i].unlockedAt = 1
    /\ \E i \in EntriesOf("elden-lord") : profileResult.achievements[i].unlockedAt = 2

\* the player's wins with a recorded duration under limit minutes
FastWins(limit) ==
    { i \in WinRows :
        /\ Less(Zero, parseTimeToMinutes(profileInput[i].match.time_taken))
        /\ Less(parseTimeToMinutes(profileInput[i].match.time_taken), Num(limit)) }

\* the achievement id is returned exactly when such a win exists, once, dated
\* by the earliest of them
SpeedTier(id, limit) ==
    IF FastWins(limit) # {}
    THEN /\ Cardinality(EntriesOf(id)) = 1
         /\ \A i \in EntriesOf(id) : \A k \in FastWins(limit) :
               /\ profileResult.achievements[i].unlockedAt <= profileInput[k].match.played_at
               /\ \E e \in FastWins(limit) :
                     profileResult.achievements[i].unlockedAt = profileInput[e].match.played_at
    ELSE EntriesOf(id) = {}

\* C17: speed-demon is returned exactly when the player has a win with a
\* recorded duration under 60 minutes and lightning exactly when the player
\* has one under 45 minutes, each dated by the first such win in played_at
\* order; a match the player did not win unlocks neither.
C17_SpeedTiers ==
    /\ SpeedTier("speed-demon", 60)
    /\ SpeedTier("lightning", 45)

\* a loss of 44 minutes, a win of 45 minutes on day 1 and a win of 44
\* minutes on day 2: speed-demon is dated day 1 and lightning day 2
C17_Witness ==
    /\ Len(profileInput) = 3
    /\ \E i \in 1..3 : /\ profileInput[i].is_winner = "false"
                       /\ profileInput[i].match.time_taken = Text44m
                       /\ profileInput[i].match.played_at = 1
    /\ \E i \in 1..3 : /\ profileInput[i].is_winner = "true"
                       /\ profileInput[i].match.time_taken = Text45m
                       /\ profileInput[i].match.played_at = 1
    /\ \E i \in EntriesOf("speed-demon") : profileResult.achievements[i].unlockedAt = 1
    /\ \E i \in EntriesOf("lightning") : profileResult.achievements[i].unlockedAt = 2

\* the flag of player id in the i-th match of the profile is true
WonBy(id, i) ==
    \E k \in 1..Len(profileResult.matches[i].match_players) :
        /\ profileResult.matches[i].match_players[k].player_id = id
        /\ profileResult.matches[i].match_players[k].is_winner = "true"

\* the matches of the profile in which opponent id takes part
SharedWith(id) ==
    { i \in 1..Len(profileResult.matches) :
        \E k \in 1..Len(profileResult.matches[i].match_players) :
            profileResult.matches[i].match_players[k].player_id = id }

\* the head-to-head records about opponent id
RecordsOf(id) ==
    { r \in 1..Len(profileResult.headToHead) : profileResult.headToHead[r].opponent = id }

\* C18: calculateHeadToHead returns exactly one record for every other
\* player who shares at least one match with the subject, also when neither
\* of them won any of these, and no other record; its wins is the number of
\* shared matches the subject won and its losses the number of shared
\* matches the opponent won and the subject did not.
C18_OneRecordPerOpponent ==
    /\ \A r \in 1..Len(profileResult.headToHead) :
          profileResult.headToHead[r].opponent \in PlayerIds \ { ProfilePlayer }
    /\ \A id \in PlayerIds \ { ProfilePlayer } :
          /\ Cardinality(RecordsOf(id)) = IF SharedWith(id) = {} THEN 0 ELSE 1
          /\ \A r \in RecordsOf(id) :
                /\ profileResult.headToHead[r].wins
                      = Cardinality({ i \in SharedWith(id) : WonBy(ProfilePlayer, i) })
                /\ profileResult.headToHead[r].losses
                      = Cardinality({ i \in SharedWith(id) :
                                        WonBy(id, i) /\ ~WonBy(ProfilePlayer, i) })

\* a draw with p3, a match with p2 and p3 that p2 won and a match with p2 in
\* which both are flagged winners: p3's record is 0 to 0, p2's is 1 to 1
C18_Witness ==
    /\ Len(profileResult.matches) = 3
    /\ \E i \in 1..3 : profileResult.matches[i].outcome = "draw"
    /\ \E i \in 1..3 : WonBy("p1", i) /\ WonBy("p2", i)
    /\ \E r \in RecordsOf("p3") :
          profileResult.headToHead[r].wins = 0 /\ profileResult.headToHead[r].losses = 0
    /\ \E r \in RecordsOf("p2") :
          profileResult.headToHead[r].wins = 1 /\ profileResult.headToHead[r].losses = 1

\* the participants of match m flagged as winners
WinnersOf(m) ==
    { k \in 1..Len(m.match_players) : m.match_players[k].is_winner = "true" }

\* the head-to-head list of player a over the matches of the profile: the
\* displayed one for the profile player
HeadToHeadList(a) ==
    IF a = ProfilePlayer THEN profileResult.headToHead
    ELSE calculateHeadToHead(a, profileResult.matches)

\* the records of player a about opponent b
About(a, b) == SelectSeq(HeadToHeadList(a), LAMBDA x : x.opponent = b)

\* record x of one player and record y of the other mirror each other
Mirrored(x, y) == x.wins = y.losses /\ x.losses = y.wins /\ x.total = y.total

\* C19: when every match has at most one winner, the head-to-head record of
\* any player A against any B and the record of B against A mirror each
\* other: the wins of one are the losses of the other, and the totals are
\* equal.
C19_HeadToHeadSymmetric ==
    (\A i \in 1..Len(profileResult.matches) : Cardinality(WinnersOf(profileResult.matches[i])) <= 1)
        => \A a \in PlayerIds : \A b \in PlayerIds \ { a } :
              /\ Len(About(a, b)) = Len(About(b, a))
              /\ Len(About(a, b)) <= 1
              /\ Len(About(a, b)) = 1 => Mirrored(About(a, b)[1], About(b, a)[1])

\* three matches with p2, each with one winner: p1 has wins 2, losses 1,
\* total 3 against p2, and p2 has wins 1, losses 2, total 3 against p1
C19_Witness ==
    /\ Len(profileResult.matches) = 3
    /\ \A i \in 1..3 : Cardinality(WinnersOf(profileResult.matches[i])) = 1
    /\ \E r \in RecordsOf("p2") :
          /\ profileResult.headToHead[r].wins = 2
          /\ profileResult.headToHead[r].losses = 1
          /\ profileResult.headToHead[r].total = 3
    /\ Len(About("p2", "p1")) = 1
    /\ About("p2", "p1")[1].wins = 1
    /\ About("p2", "p1")[1].losses = 2
    /\ About("p2", "p1")[1].total = 3

\* the amount of a component, 0 when it is left out
AmountOf(n) == IF n < 0 THEN 0 ELSE n

\* C20: parseTimeToMinutes returns hours * 60 + minutes + seconds / 60 for
\* a text made of any subset of the components <N>h, <N>m, <N>s in any order
\* and letter case, and 0 for an empty or missing value, a value that is no
\* string and a text that spells no component.
C20_ParseComponents ==
    durPc = "parsed" =>
        \A i \in ParseInputs :
            i.value = timeInput =>
                parsed = Add(Num(AmountOf(i.amounts["h"]) * 60 + AmountOf(i.amounts["m"])),
                             Div(Num(AmountOf(i.amounts["s"])), 60))

\* "3h 42m" gives 222
C20_Witness ==
    /\ durPc = "parsed"
    /\ timeInput = StringValue(<< "3", "h", " ", "4", "2", "m" >>)
    /\ parsed = Num(222)

\* the aggregates the stats page displays
StatsAggregates(s) ==
    << s.totalHours, s.totalMatches, s.playerStats, s.matchDurationStats, s.chartData >>

\* the aggregates the profile page displays
ProfileAggregates(p) == << p.player, p.matches, p.stats, p.achievements, p.headToHead >>

\* a step that leaves an error message in a hook's state sets loading to
\* false and keeps the aggregates
FailureKeepsAggregates ==
    /\ (stats'.error # "null" /\ stats' # stats) =>
          /\ ~stats'.loading
          /\ StatsAggregates(stats') = StatsAggregates(stats)
    /\ (profile'.error # "null" /\ profile' # profile) =>
          /\ ~profile'.loading
          /\ ProfileAggregates(profile') = ProfileAggregates(profile)

\* C21: a step that reports a failed fetch (it leaves an error message in the
\* hook's state) sets loading to false and leaves every aggregate displayed
\* before unchanged, in useStats and in usePlayerProfile.
C21_FailureKeepsAggregates == [][FailureKeepsAggregates]_vars

\* the profile page shows an error over the aggregates of an earlier
\* successful fetch, while the store holds a row that fetch did not see
C21_Witness ==
    /\ profile.error # "null" /\ ~profile.loading
    /\ profile.stats.totalMatches = 1
    /\ Len(profile.headToHead) = 0
    /\ Len(matchPlayers) = 1 /\ Len(matchPlayers[1].match.match_players) = 2


\* the players of a form that are flagged as winner
FormWinners(ps) == { i \in 1..Len(ps) : ps[i].is_winner }

\* the match_players rows of a stored match that are flagged as winner
StoredWinners(m) == { i \in 1..Len(m.match_players) : m.match_players[i].is_winner = "true" }

\* the stored matches that no run is writing or has failed to write: neither
\* the match of the running handleSubmit nor the match of a modal that is
\* saving or shows the error of its save
Written ==
    { m \in 1..Len(matchTable) :
        /\ ~(form.isSubmitting /\ form.match = m)
        /\ ~(edit.match = m /\ (edit.saving \/ edit.error # "null")) }

\* C23: after any sequence of addPlayer, removePlayer, updatePlayer and
\* setWinner in the Submit form and in the edit modal at most one player of
\* the form is flagged as winner, and every match the forms submitted or
\* saved has zero or one winner among its rows.
C23_AtMostOneWinner ==
    /\ Cardinality(FormWinners(form.players)) <= 1
    /\ Cardinality(FormWinners(edit.players)) <= 1
    /\ \A m \in Written : Cardinality(StoredWinners(matchTable[m])) <= 1

\* C24: a match stored with outcome draw or abandoned has no match_players
\* row flagged as winner.
C24_NoWinnerWithoutWin ==
    \A m \in 1..Len(matchTable) :
        matchTable[m].outcome \in { "draw", "abandoned" } => StoredWinners(matchTable[m]) = {}


\* C22: the players table never holds two records whose names are equal
\* ignoring letter case, whatever the order of match submissions and profile
\* setups.
C22_NamesUniqueIgnoringCase ==
    \A i, j \in 1..Len(players) :
        toLowerCase(players[i].name) = toLowerCase(players[j].name) => i = j

\* C26: once logout or SIGNED_OUT has removed the cached player, the cache
\* stays empty until the next SIGNED_IN of the page session.
C26_LogoutClearsCache == \A b \in Browsers : signedOut[b] => cache[b] = NoPlayer

\* C28: in the state of the auth hook a player implies a user.
C28_PlayerImpliesUser ==
    \A b \in Browsers : auth[b].player # NoPlayer => auth[b].user # "null"

\* C29: a player record is in the auth state of at most one account.
C29_ClaimedByOne ==
    \A a, b \in Browsers :
        (auth[a].player # NoPlayer /\ auth[a].player.id = auth[b].player.id) => a = b


\* the number of matches against one player the Rivalry entry of the catalog asks for
RivalryMatches == 10

\* C25: when some opponent shares at least 10 matches with the player,
\* calculateAchievements returns the rivalry badge.
C25_RivalryUnlocked ==
    (\E id \in PlayerIds \ { ProfilePlayer } : SharedCount(id) >= RivalryMatches)
        => "rivalry" \in UnlockedIds(profileResult)


\* C27: once both pages have loaded the same matches, the leaderboard row
\* of the profile player and the profile's summary have the same wins,
\* number of matches, longestStreak, currentStreak, totalMinutes and
\* avgMinutes.
C27_LeaderboardAgreesWithProfile ==
    (statsInput # << >> /\ Len(profileInput) = Len(statsInput)
        /\ profileInput = PlayerRows(ProfilePlayer, statsInput, CreatedOf(profileInput))) =>
        \A i \in RowsOf(ProfilePlayer) :
            /\ statsResult.playerStats[i].wins = profileResult.stats.wins
            /\ statsResult.playerStats[i].matches = profileResult.stats.totalMatches
            /\ statsResult.playerStats[i].longestStreak = profileResult.stats.longestStreak
            /\ statsResult.playerStats[i].currentStreak = profileResult.stats.currentStreak
            /\ statsResult.playerStats[i].totalMinutes = profileResult.stats.totalMinutes
            /\ statsResult.playerStats[i].avgMinutes = profileResult.stats.avgMinutes


\* the matches a list holds
Listed(l) == { l[i] : i \in 1..Len(l) }

\* C30: once every fetch of the gallery has completed, the matches list
\* holds no match twice and every match of the store before the last one it
\* holds.
C30_PaginationComplete ==
    (page.mounted /\ pageFetches = << >>) =>
        /\ Cardinality(Listed(page.matches)) = Len(page.matches)
        /\ \A m \in Listed(page.matches) : 1..m \subseteq Listed(page.matches)

====
